---- MODULE Spec2Model ----
(***************************************************************************)
(* Verification model of the hft_engine hot path.                          *)
(*                                                                         *)
(*   SpecRing   - SPSCRingBuffer<T, Capacity> (core/ring_buffer.hpp): one  *)
(*                producer and one consumer, every atomic load / store and *)
(*                every slot access a step of its own.                     *)
(*   SpecEngine - ExecutionEngine::on_trade with RiskCheck, the gateway,   *)
(*                the audit log queue and the KillSwitch.                  *)
(*   SpecRisk   - RiskCheck::check_new_order called directly over the      *)
(*                whole (scaled) range of tick values.                     *)
(*   SpecLogger - Logger (logger.hpp): init, log, stop on a client thread  *)
(*                and process_logs on the worker thread, step by step over *)
(*                the ring of SpecRing; SpecLoggerClient and               *)
(*                SpecLoggerWorker add the scheduling of one thread.       *)
(*   SpecBook   - OrderBook: apply_update, get_bbo, get_snapshot.          *)
(*   SpecTracker - LatencyTracker used by one thread: record, reset,       *)
(*                percentile.                                              *)
(*   SpecHistogram - LatencyHistogram::record called by two threads, every *)
(*                atomic operation a step.                                 *)
(*   SpecBookDelete - OrderBook: apply_update, and one delete applied      *)
(*                twice in a row.                                          *)
(*   SpecStrategy - StatArbStrategy::on_trade over its EWMA.               *)
(*   SpecEwma   - an EWMA constructed with any alpha and updated.          *)
(*   SpecPrice  - the Price operators +, - and the six comparisons.        *)
(*   SpecRingAny - SpecRing with a consumer that may call advance()        *)
(*                without a front() before it.                             *)
(*   SpecMain   - main() and the MockFeeder thread: who is inside a log    *)
(*                call when.                                               *)
(*                                                                         *)
(* Scaling.  The code's 64-bit integers are modelled by WordBits-bit       *)
(* two's-complement integers; a signed overflow, undefined in C++, is a    *)
(* nondeterministic choice between the outcomes a build can produce.       *)
(* doubles are modelled by exact rationals and the price / quantity scale  *)
(* 10^8 by 10^ScaleDigits.                                                 *)
(* The release store / acquire load pairs on head_ and tail_ are modelled  *)
(* as atomic steps taken in program order.                                 *)
(***************************************************************************)
EXTENDS Integers, Sequences, FiniteSets

(***************************************************************************)
(* Bounds of the model.                                                    *)
(***************************************************************************)
MaxCapBits == 2      \* ring capacities 2^1 .. 2^MaxCapBits
MaxVal     == 2      \* pushed items are drawn from 1 .. MaxVal
MaxPush    == 4      \* successful pushes per behaviour
WordBits   == 4      \* width of the modelled two's-complement integers
MaxTrades  == 3      \* on_trade calls per behaviour
LogCapBits == 1      \* the log queue holds 2^LogCapBits slots
MaxChecks  == 3      \* direct check_new_order calls per clock instant
MaxNow     == 2      \* clock instants
MaxLogs    == 4      \* Logger::log calls per behaviour
MaxInits   == 2      \* Logger::init calls per behaviour
MaxPrice   == 2      \* order book prices are 1 .. MaxPrice ticks
LatBits    == 22     \* width of the modelled latency integers
MaxSamples == 2      \* LatencyTracker template parameter MaxSamples
MaxRecords == 3      \* record calls per behaviour (since the last reset)
ScaleDigits == 2     \* PRICE_SCALE and QTY_SCALE are 10^ScaleDigits
MaxStratTrades == 3  \* StatArbStrategy::on_trade calls per behaviour
MaxUpdates == 3      \* EWMA::update calls on the EWMA used on its own
MaxFeeds == 3        \* trades the MockFeeder thread delivers per behaviour

VARIABLES
  \* ---- SPSCRingBuffer (ring_buffer.hpp:72-78) and its two client threads
  cap,        \* template parameter Capacity
  head_,      \* std::atomic<size_t> head_, written by the producer only
  tail_,      \* std::atomic<size_t> tail_, written by the consumer only
  buffer_,    \* std::array<T, Capacity> buffer_
  p_pc,       \* producer: position inside push()
  p_item,     \* producer: argument item of push()
  p_head,     \* producer: local head
  p_next,     \* producer: local next_head
  p_ret,      \* producer: return value of the last push ("none" before)
  c_pc,       \* consumer: position inside pop() / front() / advance()
  c_tail,     \* consumer: local tail
  c_item,     \* consumer: the caller's output argument item / value read via front()
  c_ptr,      \* consumer: pointer returned by front() (slot index, or Null)
  c_ret,      \* consumer: return value of the last pop ("none" before)
  pushed,     \* history: items of the pushes that returned true, in order
  popped,     \* history: items handed to the consumer (pop true / advance), in order
  p_snap,     \* history: head_, buffer_ and unread count seen by the running push
  c_snap,     \* history: tail_ and output argument at the start of the running pop
  \* ---- ExecutionEngine, RiskCheck, KillSwitch, Logger, gateway
  config_,         \* RiskCheck::config_
  next_order_id_,  \* ExecutionEngine::next_order_id_
  active_,         \* KillSwitch::active_
  gw_orders,       \* the commands gateway_.send_order received, in order
  queue_,          \* Logger::queue_ (head, tail, buffer)
  file_,           \* Logger::file_: the lines written, in order
  log_calls,       \* history: the records passed to Logger::logf, in order
  ks_last_write,   \* history: the most recent completed KillSwitch write
  ks_read,         \* history: the last is_active() return and the write it followed
  e_calls,         \* history: number of on_trade calls
  e_signals,       \* history: number of on_trade calls whose signal had should_trade
  e_last,          \* history: the last on_trade call
  \* ---- RiskCheck called directly
  rk_now,          \* core::now_nanos()
  rk_calls,        \* history: check_new_order calls in the current instant
  rk_passes,       \* history: calls that returned true in the current instant
  rk_last,         \* history: the last check_new_order call
  rk_cmd,          \* the OrderCommand presented to check_new_order
  rk_ref,          \* the ref_price presented to check_new_order
  \* ---- Logger with its client thread and its worker thread; queue_ is the
  \* ---- ring above (cap, head_, tail_, buffer_), the client its producer
  running_,        \* std::atomic<bool> running_
  lg_open,         \* file_.is_open()
  lg_file,         \* the messages written to the log file, in order
  w_pc,            \* worker_: position inside process_logs ("off": no thread)
  m_pc,            \* client: position inside stop()
  lg_calls,        \* history: number of log calls; call k passes record k
  lg_inits,        \* history: number of init calls
  lg_phase,        \* history: "new", "running" (init returned), "stopped"
  lg_stop,         \* history: the last stop(): records enqueued at the call, file at the return
  lg_late,         \* history: records passed to log while stopped
  \* ---- OrderBook
  bids_,           \* std::map<Price, Quantity> bids_
  asks_,           \* std::map<Price, Quantity> asks_
  last_update_ts_, \* core::Timestamp last_update_ts_
  ob_last,         \* history: the last update applied for each side and price
  ob_bbo,          \* history: the last call, if it was a get_bbo
  ob_snap,         \* history: the last call, if it was a get_snapshot
  ob_twice,        \* history: the last call, if it applied one delete twice
  \* ---- LatencyTracker and LatencyHistogram
  histogram_,      \* LatencyTracker::histogram_: buckets_, count_, sum_, min_, max_
  samples_,        \* std::array<std::int64_t, MaxSamples> samples_
  write_idx_,      \* std::atomic<std::size_t> write_idx_
  tr_hist,         \* history: the samples recorded since construction / reset
  tr_last,         \* history: the last call, if a record: sample, buckets before
  tr_pct,          \* history: the last call, if a percentile
  h_pc,            \* per thread: position inside LatencyHistogram::record
  h_x,             \* per thread: argument latency_ns
  h_cur,           \* per thread: local current_min / current_max
  h_samples,       \* history: the samples of the concurrent record calls
  \* ---- StatArbStrategy and EWMA
  target_id_,      \* StatArbStrategy::target_id_
  threshold_,      \* StatArbStrategy::threshold_
  price_ewma_,     \* StatArbStrategy::price_ewma_: alpha_, value_, initialized_
  st_hist,         \* history: the trades passed to on_trade, in order
  st_last,         \* history: the last on_trade call
  st_shadow,       \* history: an EWMA fed with the target-symbol trades only
  ewma_,           \* an EWMA object used on its own
  ew_hist,         \* history: the samples passed to ewma_.update, in order
  \* ---- Price values and their operators
  pr_a,            \* a Price
  pr_b,            \* a Price
  pr_last,         \* history: the last operator applied to pr_a and pr_b
  \* ---- main() and the MockFeeder thread (main.cpp)
  mn_pc,           \* main thread: position inside main()
  fd_pc,           \* MockFeeder::worker_: position inside its loop ("off": no thread)
  fd_running_,     \* MockFeeder::running_ (a plain bool)
  fd_trades,       \* history: number of on_trade_ calls of the feeder thread
  mn_logs,         \* history: number of LOG_INFO calls main has begun
  fd_logs          \* history: number of logf calls the feeder thread has begun

ringVars == <<cap, head_, tail_, buffer_, p_pc, p_item, p_head, p_next, p_ret,
              c_pc, c_tail, c_item, c_ptr, c_ret, pushed, popped, p_snap, c_snap>>

engineVars == <<config_, next_order_id_, active_, gw_orders, queue_, file_,
                log_calls, ks_last_write, ks_read, e_calls, e_signals, e_last>>

riskVars == <<rk_now, rk_calls, rk_passes, rk_last, rk_cmd, rk_ref>>

loggerVars == <<running_, lg_open, lg_file, w_pc, m_pc, lg_calls, lg_inits,
                lg_phase, lg_stop, lg_late>>

bookVars == <<bids_, asks_, last_update_ts_, ob_last, ob_bbo, ob_snap,
              ob_twice>>

latVars == <<histogram_, samples_, write_idx_, tr_hist, tr_last, tr_pct,
             h_pc, h_x, h_cur, h_samples>>

stratVars == <<target_id_, threshold_, price_ewma_, st_hist, st_last,
               st_shadow, ewma_, ew_hist>>

priceVars == <<pr_a, pr_b, pr_last>>

mainVars == <<mn_pc, fd_pc, fd_running_, fd_trades, mn_logs, fd_logs>>

vars == <<ringVars, engineVars, riskVars, loggerVars, bookVars, latVars,
          stratVars, priceVars, mainVars>>

ringOthers == <<engineVars, riskVars, loggerVars, bookVars, latVars,
  stratVars, priceVars, mainVars>>
engineOthers == <<ringVars, riskVars, loggerVars, bookVars, latVars,
  stratVars, priceVars, mainVars>>
riskOthers == <<ringVars, engineVars, loggerVars, bookVars, latVars,
  stratVars, priceVars, mainVars>>
loggerOthers == <<engineVars, riskVars, bookVars, latVars,
  stratVars, priceVars, mainVars>>
bookOthers == <<ringVars, engineVars, riskVars, loggerVars, latVars,
  stratVars, priceVars, mainVars>>
latOthers == <<ringVars, engineVars, riskVars, loggerVars, bookVars,
  stratVars, priceVars, mainVars>>
stratOthers == <<ringVars, engineVars, riskVars, loggerVars, bookVars, latVars,
  priceVars, mainVars>>
priceOthers == <<ringVars, engineVars, riskVars, loggerVars, bookVars, latVars,
  stratVars, mainVars>>
mainOthers == <<ringVars, engineVars, riskVars, loggerVars, bookVars, latVars,
  stratVars, priceVars>>

(***************************************************************************)
(* Helpers                                                                 *)
(***************************************************************************)
RECURSIVE BitAnd(_, _)
\* a & b on naturals
BitAnd(a, b) ==
  IF a = 0 \/ b = 0 THEN 0
  ELSE (a % 2) * (b % 2) + 2 * BitAnd(a \div 2, b \div 2)

RECURSIVE Pow2(_)
Pow2(n) == IF n = 0 THEN 1 ELSE 2 * Pow2(n - 1)

\* static_assert((Capacity & (Capacity - 1)) == 0)
IsPowerOfTwo(c) == BitAnd(c, c - 1) = 0

Capacities == {c \in 2 .. Pow2(MaxCapBits) : IsPowerOfTwo(c)}

Values == 1 .. MaxVal

Null == -1      \* nullptr
NoItem == 0     \* content of a slot / variable nothing has been stored in

\* std::min
Min(a, b) == IF a <= b THEN a ELSE b

\* (i + 1) & (Capacity - 1)
NextIndex(i, c) == BitAnd(i + 1, c - 1)

\* number of pushed items the consumer has not consumed yet
Unread == Len(pushed) - Len(popped)

\* slot s holds an item the producer has published (a completed store of head_
\* past it) and the consumer has not released (no store of tail_ past it)
Published(s) == ((s - tail_) % cap) < Unread

\* the buffered items, oldest first
Contents ==
  [i \in 1 .. ((head_ - tail_) % cap) |-> buffer_[(tail_ + i - 1) % cap]]

(***************************************************************************)
(* SPSCRingBuffer(): head_(0), tail_(0)                                    *)
(***************************************************************************)
InitRing ==
  /\ cap \in Capacities
  /\ head_ = 0
  /\ tail_ = 0
  /\ buffer_ = [i \in 0 .. cap - 1 |-> NoItem]
  /\ p_pc = "idle" /\ p_item = NoItem /\ p_head = 0 /\ p_next = 0
  /\ p_ret = "none"
  /\ c_pc = "idle" /\ c_tail = 0 /\ c_item = NoItem /\ c_ptr = Null
  /\ c_ret = "none"
  /\ pushed = <<>> /\ popped = <<>>
  /\ p_snap = [head |-> 0, buffer |-> buffer_, unread |-> 0]
  /\ c_snap = [tail |-> 0, item |-> NoItem]

producerVars == <<p_pc, p_item, p_head, p_next, p_ret, pushed, p_snap>>
consumerVars == <<c_pc, c_tail, c_item, c_ptr, c_ret, popped, c_snap>>

(***************************************************************************)
(* Producer: bool push(const T &item)                                      *)
(***************************************************************************)
\* the producer calls push(item)
p_call_push ==
  /\ p_pc = "idle"
  /\ Len(pushed) < MaxPush
  /\ \E item \in Values : p_item' = item
  /\ p_pc' = "push_load_head"
  /\ p_ret' = "none"
  /\ p_snap' = [head |-> head_, buffer |-> buffer_, unread |-> Unread]
  /\ UNCHANGED <<cap, head_, tail_, buffer_, p_head, p_next, pushed>>
  /\ UNCHANGED consumerVars
  /\ UNCHANGED ringOthers

\* head = head_.load(relaxed); next_head = (head + 1) & (Capacity - 1)
p_push_load_head ==
  /\ p_pc = "push_load_head"
  /\ p_head' = head_
  /\ p_next' = NextIndex(head_, cap)
  /\ p_pc' = "push_load_tail"
  /\ UNCHANGED <<cap, head_, tail_, buffer_, p_item, p_ret, pushed, p_snap>>
  /\ UNCHANGED consumerVars
  /\ UNCHANGED ringOthers

\* a push with the full test left out
Mut_push_no_full_test ==
  /\ p_pc = "push_load_tail"
  /\ p_snap' = [p_snap EXCEPT !.unread = Unread]
  /\ p_pc' = "push_write"
  /\ UNCHANGED <<p_ret, p_item, p_head, p_next>>
  /\ UNCHANGED <<cap, head_, tail_, buffer_, pushed>>
  /\ UNCHANGED consumerVars
  /\ UNCHANGED ringOthers

\* a push that waits for a free slot instead of returning false
Mut_push_wait_when_full ==
  /\ p_pc = "push_load_tail"
  /\ p_next # tail_
  /\ p_snap' = [p_snap EXCEPT !.unread = Unread]
  /\ p_pc' = "push_write"
  /\ UNCHANGED <<p_ret, p_item, p_head, p_next>>
  /\ UNCHANGED <<cap, head_, tail_, buffer_, pushed>>
  /\ UNCHANGED consumerVars
  /\ UNCHANGED ringOthers

\* if (next_head == tail_.load(acquire)) return false;
p_push_load_tail ==
  /\ p_pc = "push_load_tail"
  /\ p_snap' = [p_snap EXCEPT !.unread = Unread]
  /\ IF p_next = tail_
       THEN /\ p_ret' = "false"
            /\ p_pc' = "idle"
            /\ p_item' = NoItem /\ p_head' = 0 /\ p_next' = 0
       ELSE /\ p_pc' = "push_write"
            /\ UNCHANGED <<p_ret, p_item, p_head, p_next>>
  /\ UNCHANGED <<cap, head_, tail_, buffer_, pushed>>
  /\ UNCHANGED consumerVars
  /\ UNCHANGED ringOthers

\* a push that writes the slot at next_head instead of head
Mut_push_write_next ==
  /\ p_pc = "push_write"
  /\ buffer_' = [buffer_ EXCEPT ![p_next] = p_item]
  /\ p_pc' = "push_store_head"
  /\ UNCHANGED <<cap, head_, tail_, p_item, p_head, p_next, p_ret, pushed, p_snap>>
  /\ UNCHANGED consumerVars
  /\ UNCHANGED ringOthers

\* buffer_[head] = item;
p_push_write ==
  /\ p_pc = "push_write"
  /\ buffer_' = [buffer_ EXCEPT ![p_head] = p_item]
  /\ p_pc' = "push_store_head"
  /\ UNCHANGED <<cap, head_, tail_, p_item, p_head, p_next, p_ret, pushed, p_snap>>
  /\ UNCHANGED consumerVars
  /\ UNCHANGED ringOthers

\* head_.store(next_head, release); return true;
p_push_store_head ==
  /\ p_pc = "push_store_head"
  /\ head_' = p_next
  /\ pushed' = Append(pushed, p_item)
  /\ p_ret' = "true"
  /\ p_pc' = "idle"
  /\ p_item' = NoItem /\ p_head' = 0 /\ p_next' = 0
  /\ UNCHANGED <<cap, tail_, buffer_, p_snap>>
  /\ UNCHANGED consumerVars
  /\ UNCHANGED ringOthers

Producer ==
  \/ p_call_push
  \/ p_push_load_head
  \/ p_push_load_tail
  \/ p_push_write
  \/ p_push_store_head

(***************************************************************************)
(* Consumer: bool pop(T &item), const T *front() const, void advance()     *)
(***************************************************************************)
\* the consumer calls pop(item); item is the caller's variable
c_call_pop ==
  /\ c_pc \in {"idle", "front_ok"}
  /\ c_pc' = "pop_load_tail"
  /\ c_ret' = "none"
  /\ c_ptr' = Null
  /\ c_snap' = [tail |-> tail_, item |-> c_item]
  /\ UNCHANGED <<cap, head_, tail_, buffer_, c_tail, c_item, popped>>
  /\ UNCHANGED producerVars
  /\ UNCHANGED ringOthers

\* tail = tail_.load(relaxed)
c_pop_load_tail ==
  /\ c_pc = "pop_load_tail"
  /\ c_tail' = tail_
  /\ c_pc' = "pop_load_head"
  /\ UNCHANGED <<cap, head_, tail_, buffer_, c_item, c_ptr, c_ret, popped, c_snap>>
  /\ UNCHANGED producerVars
  /\ UNCHANGED ringOthers

\* a pop with the empty test left out
Mut_pop_no_empty_test ==
  /\ c_pc = "pop_load_head"
  /\ c_pc' = "pop_read"
  /\ UNCHANGED <<c_ret, c_tail>>
  /\ UNCHANGED <<cap, head_, tail_, buffer_, c_item, c_ptr, popped, c_snap>>
  /\ UNCHANGED producerVars
  /\ UNCHANGED ringOthers

\* a pop that copies the slot into item before the empty test
Mut_pop_copy_before_test ==
  /\ c_pc = "pop_load_head"
  /\ c_item' = buffer_[c_tail]
  /\ IF c_tail = head_
       THEN /\ c_ret' = "false"
            /\ c_pc' = "idle"
            /\ c_tail' = 0
       ELSE /\ c_pc' = "pop_read"
            /\ UNCHANGED <<c_ret, c_tail>>
  /\ UNCHANGED <<cap, head_, tail_, buffer_, c_ptr, popped, c_snap>>
  /\ UNCHANGED producerVars
  /\ UNCHANGED ringOthers

\* if (tail == head_.load(acquire)) return false;
c_pop_load_head ==
  /\ c_pc = "pop_load_head"
  /\ IF c_tail = head_
       THEN /\ c_ret' = "false"
            /\ c_pc' = "idle"
            /\ c_tail' = 0
       ELSE /\ c_pc' = "pop_read"
            /\ UNCHANGED <<c_ret, c_tail>>
  /\ UNCHANGED <<cap, head_, tail_, buffer_, c_item, c_ptr, popped, c_snap>>
  /\ UNCHANGED producerVars
  /\ UNCHANGED ringOthers

\* item = buffer_[tail];
c_pop_read ==
  /\ c_pc = "pop_read"
  /\ c_item' = buffer_[c_tail]
  /\ c_pc' = "pop_store_tail"
  /\ UNCHANGED <<cap, head_, tail_, buffer_, c_tail, c_ptr, c_ret, popped, c_snap>>
  /\ UNCHANGED producerVars
  /\ UNCHANGED ringOthers

\* tail_.store((tail + 1) & (Capacity - 1), release); return true;
c_pop_store_tail ==
  /\ c_pc = "pop_store_tail"
  /\ tail_' = NextIndex(c_tail, cap)
  /\ popped' = Append(popped, c_item)
  /\ c_ret' = "true"
  /\ c_pc' = "idle"
  /\ c_tail' = 0
  /\ UNCHANGED <<cap, head_, buffer_, c_item, c_ptr, c_snap>>
  /\ UNCHANGED producerVars
  /\ UNCHANGED ringOthers

\* the consumer calls front()
c_call_front ==
  /\ c_pc \in {"idle", "front_ok"}
  /\ c_pc' = "front_load_tail"
  /\ c_ptr' = Null
  /\ UNCHANGED <<cap, head_, tail_, buffer_, c_tail, c_item, c_ret, popped, c_snap>>
  /\ UNCHANGED producerVars
  /\ UNCHANGED ringOthers

\* tail = tail_.load(relaxed)
c_front_load_tail ==
  /\ c_pc = "front_load_tail"
  /\ c_tail' = tail_
  /\ c_pc' = "front_load_head"
  /\ UNCHANGED <<cap, head_, tail_, buffer_, c_item, c_ptr, c_ret, popped, c_snap>>
  /\ UNCHANGED producerVars
  /\ UNCHANGED ringOthers

\* a front with the empty test left out
Mut_front_no_empty_test ==
  /\ c_pc = "front_load_head"
  /\ c_ptr' = c_tail /\ c_pc' = "front_ok"
  /\ c_tail' = 0
  /\ UNCHANGED <<cap, head_, tail_, buffer_, c_item, c_ret, popped, c_snap>>
  /\ UNCHANGED producerVars
  /\ UNCHANGED ringOthers

\* if (tail == head_.load(acquire)) return nullptr; return &buffer_[tail];
c_front_load_head ==
  /\ c_pc = "front_load_head"
  /\ IF c_tail = head_
       THEN c_ptr' = Null /\ c_pc' = "idle"
       ELSE c_ptr' = c_tail /\ c_pc' = "front_ok"
  /\ c_tail' = 0
  /\ UNCHANGED <<cap, head_, tail_, buffer_, c_item, c_ret, popped, c_snap>>
  /\ UNCHANGED producerVars
  /\ UNCHANGED ringOthers

\* the consumer processes *front() and then calls advance()
c_front_deref ==
  /\ c_pc = "front_ok"
  /\ c_item' = buffer_[c_ptr]
  /\ c_pc' = "adv_load_tail"
  /\ UNCHANGED <<cap, head_, tail_, buffer_, c_tail, c_ptr, c_ret, popped, c_snap>>
  /\ UNCHANGED producerVars
  /\ UNCHANGED ringOthers

\* tail = tail_.load(relaxed)
c_adv_load_tail ==
  /\ c_pc = "adv_load_tail"
  /\ c_tail' = tail_
  /\ c_pc' = "adv_store_tail"
  /\ UNCHANGED <<cap, head_, tail_, buffer_, c_item, c_ptr, c_ret, popped, c_snap>>
  /\ UNCHANGED producerVars
  /\ UNCHANGED ringOthers

\* tail_.store((tail + 1) & (Capacity - 1), release);
c_adv_store_tail ==
  /\ c_pc = "adv_store_tail"
  /\ tail_' = NextIndex(c_tail, cap)
  /\ popped' = Append(popped, c_item)
  /\ c_pc' = "idle"
  /\ c_tail' = 0
  /\ c_ptr' = Null
  /\ UNCHANGED <<cap, head_, buffer_, c_item, c_ret, c_snap>>
  /\ UNCHANGED producerVars
  /\ UNCHANGED ringOthers

\* the consumer calls advance() without a front() before it, whatever the
\* queue holds; no element is read
c_call_advance ==
  /\ c_pc = "idle"
  /\ Len(popped) < MaxPush
  /\ c_pc' = "adv_load_tail"
  /\ c_item' = NoItem
  /\ c_ptr' = Null
  /\ UNCHANGED <<cap, head_, tail_, buffer_, c_tail, c_ret, popped, c_snap>>
  /\ UNCHANGED producerVars
  /\ UNCHANGED ringOthers

Consumer ==
  \/ c_call_pop
  \/ c_pop_load_tail
  \/ c_pop_load_head
  \/ c_pop_read
  \/ c_pop_store_tail
  \/ c_call_front
  \/ c_front_load_tail
  \/ c_front_load_head
  \/ c_front_deref
  \/ c_adv_load_tail
  \/ c_adv_store_tail

(***************************************************************************)
(* Fixed-width integers (types.hpp: std::int64_t ticks / amount)           *)
(***************************************************************************)
WordMin == -Pow2(WordBits - 1)
WordMax == Pow2(WordBits - 1) - 1
Words == WordMin .. WordMax
InWord(x) == WordMin <= x /\ x <= WordMax

\* x reduced to the word's two's-complement value
Wrap(x) == ((x - WordMin) % Pow2(WordBits)) + WordMin

(***************************************************************************)
(* KillSwitch (risk/kill_switch.hpp)                                       *)
(***************************************************************************)
\* a trigger that leaves the flag alone
Mut_trigger_no_store ==
  /\ active_' = active_
  /\ ks_last_write' = "trigger"
  /\ UNCHANGED <<config_, next_order_id_, gw_orders, queue_, file_, log_calls,
                 ks_read, e_calls, e_signals, e_last>>
  /\ UNCHANGED engineOthers

\* void trigger(const char *reason) { active_.store(true, release); }
trigger ==
  /\ active_' = TRUE
  /\ ks_last_write' = "trigger"
  /\ UNCHANGED <<config_, next_order_id_, gw_orders, queue_, file_, log_calls,
                 ks_read, e_calls, e_signals, e_last>>
  /\ UNCHANGED engineOthers

\* void reset() { active_.store(false, release); }
reset ==
  /\ active_' = FALSE
  /\ ks_last_write' = "reset"
  /\ UNCHANGED <<config_, next_order_id_, gw_orders, queue_, file_, log_calls,
                 ks_read, e_calls, e_signals, e_last>>
  /\ UNCHANGED engineOthers

\* bool is_active() const { return active_.load(acquire); }
is_active ==
  /\ ks_read' = [done |-> TRUE, value |-> active_, last |-> ks_last_write]
  /\ UNCHANGED <<config_, next_order_id_, active_, gw_orders, queue_, file_,
                 log_calls, ks_last_write, e_calls, e_signals, e_last>>
  /\ UNCHANGED engineOthers

(***************************************************************************)
(* SPSCRingBuffer used from one thread at a time: push and pop as values   *)
(***************************************************************************)
LogCapacity == Pow2(LogCapBits)

RB_empty(c) == [head |-> 0, tail |-> 0, buffer |-> [i \in 0 .. c - 1 |-> NoItem]]

\* bool push(const T &item): the returned flag and the buffer afterwards
RB_push(rb, c, item) ==
  LET next_head == NextIndex(rb.head, c) IN
  IF next_head = rb.tail
    THEN [ok |-> FALSE, rb |-> rb]
    ELSE [ok |-> TRUE,
          rb |-> [rb EXCEPT !.buffer[rb.head] = item, !.head = next_head]]

\* bool pop(T &item): the returned flag, the item and the buffer afterwards
RB_pop(rb, c) ==
  IF rb.tail = rb.head
    THEN [ok |-> FALSE, item |-> NoItem, rb |-> rb]
    ELSE [ok |-> TRUE, item |-> rb.buffer[rb.tail],
          rb |-> [rb EXCEPT !.tail = NextIndex(rb.tail, c)]]

(***************************************************************************)
(* Logger (logger.hpp)                                                     *)
(***************************************************************************)
\* the message snprintf builds from the format and the order id and symbol;
\* the px= and qty= fields of ORDER_SENT and the timestamp are left out
LogEntry(level, tag, cmd) ==
  [level |-> level, tag |-> tag, id |-> cmd.order_id, sym |-> cmd.symbol_id]

\* process_logs: lvl_str
LevelStr(level) ==
  CASE level = "DEBUG" -> "DEBUG"
    [] level = "WARN" -> "WARN "
    [] level = "ERROR" -> "ERROR"
    [] OTHER -> "INFO"

\* logf: build the entry, queue_.push(entry), ignore the result
logf(entry) ==
  /\ queue_' = RB_push(queue_, LogCapacity, entry).rb
  /\ log_calls' = Append(log_calls, entry)

\* process_logs, one turn of the inner loop: queue_.pop(entry) and the write
\* of "[LEVEL] message" to file_
process_logs_pop ==
  LET r == RB_pop(queue_, LogCapacity) IN
  /\ r.ok
  /\ queue_' = r.rb
  /\ file_' = Append(file_, [lvl |-> LevelStr(r.item.level), tag |-> r.item.tag,
                             id |-> r.item.id, sym |-> r.item.sym])
  /\ UNCHANGED <<config_, next_order_id_, active_, gw_orders, log_calls,
                 ks_last_write, ks_read, e_calls, e_signals, e_last>>
  /\ UNCHANGED engineOthers

(***************************************************************************)
(* RiskCheck (risk_check.hpp)                                              *)
(***************************************************************************)
\* bool check_new_order(cmd, ref_price): the set of values a call can return.
\* cmd.price.ticks - ref_price.ticks and -diff are signed 64-bit operations:
\* where the exact result does not fit the word the behaviour is undefined
\* and the call may return either value.  The kill switch, the clock and
\* config_.max_orders_per_sec are not read.
check_new_order(cfg, cmd, ref_price) ==
  IF cmd.qty > cfg.max_order_qty THEN {FALSE}
  ELSE LET diff == cmd.price - ref_price IN
       IF ~InWord(diff) THEN {TRUE, FALSE}
       ELSE IF diff < 0 /\ ~InWord(-diff) THEN {TRUE, FALSE}
       ELSE LET abs == IF diff < 0 THEN -diff ELSE diff IN
            IF abs > cfg.max_price_deviation THEN {FALSE}
            ELSE {TRUE}

(***************************************************************************)
(* ExecutionEngine (execution_engine.hpp)                                  *)
(***************************************************************************)
\* models::Signal, default constructed
NoSignal ==
  [should_trade |-> FALSE, symbol_id |-> 0, side |-> "None", price |-> 0,
   qty |-> 0, ref_price |-> 0]

\* the signals StrategyType::on_trade returns in this model
Signals ==
  {NoSignal} \cup
  [should_trade : {TRUE}, symbol_id : {1}, side : {"Buy", "Sell"},
   price : {1, 6}, qty : {1, 2}, ref_price : {1}]

\* the configurations the engine is constructed with in this model
RiskConfigs ==
  {[max_order_qty |-> 1, max_price_deviation |-> 1, max_orders_per_sec |-> 1],
   [max_order_qty |-> 2, max_price_deviation |-> 5, max_orders_per_sec |-> 2]}

\* OrderCommand cmd built from the signal
OrderCommand(signal, id) ==
  [symbol_id |-> signal.symbol_id, order_id |-> id, price |-> signal.price,
   qty |-> signal.qty, side |-> signal.side]

\* an execute_signal that sends the order before looking at the risk check
Mut_execute_send_always(signal) ==
  LET cmd == OrderCommand(signal, next_order_id_) IN
  /\ next_order_id_' = next_order_id_ + 1
  /\ \E pass \in check_new_order(config_, cmd, signal.ref_price) :
       /\ gw_orders' = Append(gw_orders, cmd)
       /\ IF pass THEN logf(LogEntry("INFO", "ORDER_SENT", cmd))
                  ELSE logf(LogEntry("WARN", "RISK_REJECT", cmd))
       /\ e_last' = [called |-> TRUE, signal |-> signal, ks_active |-> active_,
                     passed |-> pass, id |-> cmd.order_id,
                     events |-> <<"send_order", "check_new_order", "logf">>]

\* an execute_signal that takes an order id only for the orders it sends
Mut_execute_id_on_pass(signal) ==
  LET cmd == OrderCommand(signal, next_order_id_) IN
  \E pass \in check_new_order(config_, cmd, signal.ref_price) :
    /\ IF pass
         THEN /\ next_order_id_' = next_order_id_ + 1
              /\ gw_orders' = Append(gw_orders, cmd)
              /\ logf(LogEntry("INFO", "ORDER_SENT", cmd))
         ELSE /\ next_order_id_' = next_order_id_
              /\ gw_orders' = gw_orders
              /\ logf(LogEntry("WARN", "RISK_REJECT", cmd))
    /\ e_last' = [called |-> TRUE, signal |-> signal, ks_active |-> active_,
                  passed |-> pass, id |-> cmd.order_id,
                  events |-> IF pass
                               THEN <<"check_new_order", "send_order", "logf">>
                               ELSE <<"check_new_order", "logf">>]

\* void execute_signal(const auto &signal); next_order_id_ is a uint64_t and
\* does not wrap within MaxTrades calls
execute_signal(signal) ==
  LET cmd == OrderCommand(signal, next_order_id_) IN
  /\ next_order_id_' = next_order_id_ + 1
  /\ \E pass \in check_new_order(config_, cmd, signal.ref_price) :
       /\ IF pass
            THEN /\ gw_orders' = Append(gw_orders, cmd)
                 /\ logf(LogEntry("INFO", "ORDER_SENT", cmd))
            ELSE /\ gw_orders' = gw_orders
                 /\ logf(LogEntry("WARN", "RISK_REJECT", cmd))
       /\ e_last' = [called |-> TRUE, signal |-> signal, ks_active |-> active_,
                     passed |-> pass, id |-> cmd.order_id,
                     events |-> IF pass
                                  THEN <<"check_new_order", "send_order", "logf">>
                                  ELSE <<"check_new_order", "logf">>]

\* void on_trade(const data::TradeUpdate &trade), for the signal an arbitrary
\* StrategyType returns for the trade
on_trade ==
  /\ e_calls < MaxTrades
  /\ e_calls' = e_calls + 1
  /\ \E signal \in Signals :
       IF signal.should_trade
         THEN /\ execute_signal(signal)
              /\ e_signals' = e_signals + 1
         ELSE /\ e_last' = [called |-> TRUE, signal |-> signal,
                            ks_active |-> active_, passed |-> FALSE,
                            id |-> 0, events |-> <<>>]
              /\ UNCHANGED <<next_order_id_, gw_orders, queue_, log_calls,
                             e_signals>>
  /\ UNCHANGED <<config_, active_, file_, ks_last_write, ks_read>>
  /\ UNCHANGED engineOthers

\* ExecutionEngine(strategy, gateway, risk_cfg); KillSwitch active_{false};
\* Logger after init()
InitEngineRest ==
  /\ next_order_id_ = 1
  /\ active_ = FALSE
  /\ gw_orders = <<>>
  /\ queue_ = RB_empty(LogCapacity)
  /\ file_ = <<>>
  /\ log_calls = <<>>
  /\ ks_last_write = "none"
  /\ ks_read = [done |-> FALSE, value |-> FALSE, last |-> "none"]
  /\ e_calls = 0
  /\ e_signals = 0
  /\ e_last = [called |-> FALSE, signal |-> NoSignal, ks_active |-> FALSE,
               passed |-> FALSE, id |-> 0, events |-> <<>>]

InitEngineVars == config_ \in RiskConfigs /\ InitEngineRest

(***************************************************************************)
(* RiskCheck::check_new_order called directly, with a clock                *)
(***************************************************************************)
\* the orders presented to the check: every tick value of the word
RiskCommands ==
  [symbol_id : {1}, order_id : {1}, price : Words, qty : {1, 2, 3}, side : {"Buy"}]

\* the configurations the check is constructed with when called directly
RiskCheckConfigs ==
  [max_order_qty : {1, 2}, max_price_deviation : {0, 1, 5},
   max_orders_per_sec : {1, 2}]

InitRiskVars ==
  /\ rk_cmd \in RiskCommands
  /\ rk_ref \in Words
  /\ rk_now = 0
  /\ rk_calls = 0
  /\ rk_passes = 0
  /\ rk_last = [called |-> FALSE, ret |-> FALSE]

\* one call risk_.check_new_order(rk_cmd, rk_ref)
rk_check ==
  /\ rk_calls < MaxChecks
  /\ \E ret \in check_new_order(config_, rk_cmd, rk_ref) :
       /\ rk_last' = [called |-> TRUE, ret |-> ret]
       /\ rk_passes' = rk_passes + (IF ret THEN 1 ELSE 0)
  /\ rk_calls' = rk_calls + 1
  /\ UNCHANGED <<rk_cmd, rk_ref, rk_now>>
  /\ UNCHANGED riskOthers

\* time passes between two calls
rk_tick ==
  /\ rk_now < MaxNow
  /\ rk_now' = rk_now + 1
  /\ rk_calls' = 0
  /\ rk_passes' = 0
  /\ UNCHANGED <<rk_cmd, rk_ref, rk_last>>
  /\ UNCHANGED riskOthers

(***************************************************************************)
(* Logger with its worker thread (logger.hpp): init, log / logf, stop and  *)
(* process_logs step by step.  queue_ is the ring of the first section;    *)
(* the client thread is its producer, worker_ its consumer.  A record is   *)
(* identified by the number of the log call that passed it, and the open   *)
(* of the log file is taken to succeed.                                    *)
(***************************************************************************)
\* Logger(): running_{false}, file_ closed, no worker_
InitLoggerVars ==
  /\ running_ = FALSE
  /\ lg_open = FALSE
  /\ lg_file = <<>>
  /\ w_pc = "off"
  /\ m_pc = "idle"
  /\ lg_calls = 0
  /\ lg_inits = 0
  /\ lg_phase = "new"
  /\ lg_stop = [done |-> FALSE, mark |-> 0, file |-> <<>>]
  /\ lg_late = {}

\* void init(filename): file_.open(filename, app); running_ = true;
\* worker_ = std::thread(&Logger::process_logs, this).  Assigning to a
\* worker_ that is still joinable terminates the process, hence the guard.
lg_init ==
  /\ m_pc = "idle" /\ p_pc = "idle"
  /\ w_pc = "off"
  /\ lg_inits < MaxInits
  /\ lg_open' = TRUE
  /\ running_' = TRUE
  /\ w_pc' = "loop_test"
  /\ lg_inits' = lg_inits + 1
  /\ lg_phase' = "running"
  /\ UNCHANGED <<lg_file, m_pc, lg_calls, lg_stop, lg_late>>
  /\ UNCHANGED ringVars
  /\ UNCHANGED loggerOthers

\* void log(level, msg) / logf(level, fmt, ...): build the entry on the
\* stack and call queue_.push(entry); the steps of the push are p_push_*
\* and the returned flag is ignored
lg_log ==
  /\ m_pc = "idle" /\ p_pc = "idle"
  /\ lg_calls < MaxLogs
  /\ lg_calls' = lg_calls + 1
  /\ p_item' = lg_calls + 1
  /\ p_pc' = "push_load_head"
  /\ p_ret' = "none"
  /\ p_snap' = [head |-> head_, buffer |-> buffer_, unread |-> Unread]
  /\ lg_late' = IF lg_phase = "stopped" THEN lg_late \cup {lg_calls + 1}
                                        ELSE lg_late
  /\ UNCHANGED <<cap, head_, tail_, buffer_, p_head, p_next, pushed>>
  /\ UNCHANGED consumerVars
  /\ UNCHANGED <<running_, lg_open, lg_file, w_pc, m_pc, lg_inits, lg_phase,
                 lg_stop>>
  /\ UNCHANGED loggerOthers

\* void stop(): running_ = false; then, without a joinable worker_, close
\* file_ and return, else wait in worker_.join()
lg_stop_call ==
  /\ m_pc = "idle" /\ p_pc = "idle"
  /\ running_' = FALSE
  /\ IF w_pc = "off"
       THEN /\ lg_open' = FALSE
            /\ UNCHANGED <<m_pc, lg_stop>>
       ELSE /\ m_pc' = "stop_join"
            /\ lg_stop' = [done |-> FALSE, mark |-> Len(pushed), file |-> <<>>]
            /\ UNCHANGED lg_open
  /\ UNCHANGED <<lg_file, w_pc, lg_calls, lg_inits, lg_phase, lg_late>>
  /\ UNCHANGED ringVars
  /\ UNCHANGED loggerOthers

\* stop(): worker_.join() returns once process_logs has returned; then
\* if (file_.is_open()) file_.close(); and stop() returns
lg_stop_join ==
  /\ m_pc = "stop_join"
  /\ w_pc = "exited"
  /\ w_pc' = "off"
  /\ lg_open' = FALSE
  /\ m_pc' = "idle"
  /\ lg_phase' = "stopped"
  /\ lg_stop' = [lg_stop EXCEPT !.done = TRUE, !.file = lg_file]
  /\ UNCHANGED <<running_, lg_file, lg_calls, lg_inits, lg_late>>
  /\ UNCHANGED ringVars
  /\ UNCHANGED loggerOthers

\* the worker calls queue_.pop(entry)
w_call_pop ==
  /\ w_pc' = "in_pop"
  /\ c_pc' = "pop_load_tail"
  /\ c_ret' = "none"
  /\ c_ptr' = Null
  /\ c_snap' = [tail |-> tail_, item |-> c_item]

\* a worker that leaves the loop as soon as running_ is false
Mut_worker_exit_on_stop ==
  /\ w_pc = "loop_test"
  /\ IF running_
       THEN w_call_pop
       ELSE /\ w_pc' = "exited"
            /\ UNCHANGED <<c_pc, c_ret, c_ptr, c_snap>>
  /\ UNCHANGED <<cap, head_, tail_, buffer_, c_tail, c_item, popped>>
  /\ UNCHANGED producerVars
  /\ UNCHANGED <<running_, lg_open, lg_file, m_pc, lg_calls, lg_inits,
                 lg_phase, lg_stop, lg_late>>
  /\ UNCHANGED loggerOthers

\* process_logs: while (running_ || queue_.front() != nullptr): the load of
\* running_; true enters the body, which starts with queue_.pop(entry),
\* false goes on to call queue_.front()
w_loop_test ==
  /\ w_pc = "loop_test"
  /\ IF running_
       THEN w_call_pop
       ELSE /\ w_pc' = "in_front"
            /\ c_pc' = "front_load_tail"
            /\ c_ptr' = Null
            /\ UNCHANGED <<c_ret, c_snap>>
  /\ UNCHANGED <<cap, head_, tail_, buffer_, c_tail, c_item, popped>>
  /\ UNCHANGED producerVars
  /\ UNCHANGED <<running_, lg_open, lg_file, m_pc, lg_calls, lg_inits,
                 lg_phase, lg_stop, lg_late>>
  /\ UNCHANGED loggerOthers

\* process_logs: queue_.front() has returned: a null pointer ends the loop
\* and the thread, any other pointer enters the body
w_front_return ==
  /\ w_pc = "in_front"
  /\ c_pc \in {"idle", "front_ok"}
  /\ IF c_ptr # Null
       THEN w_call_pop
       ELSE /\ w_pc' = "exited"
            /\ UNCHANGED <<c_pc, c_ret, c_ptr, c_snap>>
  /\ UNCHANGED <<cap, head_, tail_, buffer_, c_tail, c_item, popped>>
  /\ UNCHANGED producerVars
  /\ UNCHANGED <<running_, lg_open, lg_file, m_pc, lg_calls, lg_inits,
                 lg_phase, lg_stop, lg_late>>
  /\ UNCHANGED loggerOthers

\* process_logs: queue_.pop(entry) has returned: true writes the entry if
\* file_.is_open() and pops again, false leaves the inner loop, yields and
\* goes back to the test of the outer loop
w_pop_return ==
  /\ w_pc = "in_pop"
  /\ c_pc = "idle"
  /\ IF c_ret = "true"
       THEN /\ lg_file' = IF lg_open THEN Append(lg_file, c_item) ELSE lg_file
            /\ w_call_pop
       ELSE /\ w_pc' = "loop_test"
            /\ UNCHANGED <<lg_file, c_pc, c_ret, c_ptr, c_snap>>
  /\ UNCHANGED <<cap, head_, tail_, buffer_, c_tail, c_item, popped>>
  /\ UNCHANGED producerVars
  /\ UNCHANGED <<running_, lg_open, m_pc, lg_calls, lg_inits, lg_phase,
                 lg_stop, lg_late>>
  /\ UNCHANGED loggerOthers

\* the steps of a log call after its entry
LogSteps ==
  \/ p_push_load_head
  \/ p_push_load_tail
  \/ p_push_write
  \/ p_push_store_head

\* the steps of the worker thread
WorkerSteps ==
  \/ w_loop_test
  \/ w_front_return
  \/ w_pop_return
  \/ c_pop_load_tail
  \/ c_pop_load_head
  \/ c_pop_read
  \/ c_pop_store_tail
  \/ c_front_load_tail
  \/ c_front_load_head

(***************************************************************************)
(* OrderBook (order_book.hpp): bids_ and asks_ are std::map<Price,         *)
(* Quantity>, modelled as functions from the set of their keys, ordered by *)
(* ticks; Quantity is signed.                                              *)
(***************************************************************************)
Prices == 1 .. MaxPrice
Qtys == {-1, 0, 1, 2}
BookSides == {"Buy", "Sell"}
LevelUpdates ==
  [side : BookSides, price : Prices, qty : Qtys, local_ts : {1}]

EmptyMap == [p \in {} |-> 0]

\* side_map.erase(key)
MapErase(m, key) == [p \in DOMAIN m \ {key} |-> m[p]]

\* side_map[key] = value
MapPut(m, key, value) ==
  [p \in DOMAIN m \cup {key} |-> IF p = key THEN value ELSE m[p]]

\* rbegin()->first and begin()->first of a non-empty map
MaxKey(keys) == CHOOSE k \in keys : \A j \in keys : j <= k
MinKey(keys) == CHOOSE k \in keys : \A j \in keys : k <= j

NoUpdate == [seen |-> FALSE, qty |-> 0]
NoBbo == [called |-> FALSE, ret |-> FALSE, bid_in |-> 0, ask_in |-> 0,
          bid |-> 0, ask |-> 0, book |-> <<EmptyMap, EmptyMap, 0>>]
NoSnapshot == [called |-> FALSE, n |-> 0, bids_in |-> <<>>, asks_in |-> <<>>,
               bid_levels |-> <<>>, ask_levels |-> <<>>, ret |-> 0,
               book |-> <<EmptyMap, EmptyMap, 0>>]

NoTwice == [called |-> FALSE, update |-> [side |-> "Buy", price |-> 0],
            before |-> <<EmptyMap, EmptyMap>>, once |-> <<EmptyMap, EmptyMap>>]

\* OrderBook(): empty maps, last_update_ts_ = 0
InitBookVars ==
  /\ bids_ = EmptyMap
  /\ asks_ = EmptyMap
  /\ last_update_ts_ = 0
  /\ ob_last = [s \in BookSides |-> [p \in Prices |-> NoUpdate]]
  /\ ob_bbo = NoBbo
  /\ ob_snap = NoSnapshot
  /\ ob_twice = NoTwice

\* an apply_update whose delete erases the first level of the side
Mut_ApplyUpdate_erase_first(bids, asks, update) ==
  LET side_map == IF update.side = "Buy" THEN bids ELSE asks
      new_map == IF update.qty = 0
                   THEN IF DOMAIN side_map = {} THEN side_map
                        ELSE MapErase(side_map, MinKey(DOMAIN side_map))
                   ELSE MapPut(side_map, update.price, update.qty)
  IN  IF update.side = "Buy"
        THEN <<new_map, asks, update.local_ts>>
        ELSE <<bids, new_map, update.local_ts>>

\* the book after apply_update(update): <<bids_, asks_, last_update_ts_>>
ApplyUpdate(bids, asks, update) ==
  LET side_map == IF update.side = "Buy" THEN bids ELSE asks
      new_map == IF update.qty = 0
                   THEN MapErase(side_map, update.price)
                   ELSE MapPut(side_map, update.price, update.qty)
  IN  IF update.side = "Buy"
        THEN <<new_map, asks, update.local_ts>>
        ELSE <<bids, new_map, update.local_ts>>

\* an apply_update that stores a zero quantity like any other
Mut_apply_update_no_erase ==
  \E update \in LevelUpdates :
    /\ IF update.side = "Buy"
         THEN /\ bids_' = MapPut(bids_, update.price, update.qty)
              /\ asks_' = asks_
         ELSE /\ asks_' = MapPut(asks_, update.price, update.qty)
              /\ bids_' = bids_
    /\ last_update_ts_' = update.local_ts
    /\ ob_last' = [ob_last EXCEPT ![update.side][update.price] =
                     [seen |-> TRUE, qty |-> update.qty]]
    /\ ob_bbo' = NoBbo
    /\ ob_snap' = NoSnapshot
    /\ ob_twice' = NoTwice
    /\ UNCHANGED bookOthers

\* void apply_update(const LevelUpdate &update)
apply_update ==
  \E update \in LevelUpdates :
    LET after == ApplyUpdate(bids_, asks_, update) IN
    /\ bids_' = after[1]
    /\ asks_' = after[2]
    /\ last_update_ts_' = after[3]
    /\ ob_last' = [ob_last EXCEPT ![update.side][update.price] =
                     [seen |-> TRUE, qty |-> update.qty]]
    /\ ob_bbo' = NoBbo
    /\ ob_snap' = NoSnapshot
    /\ ob_twice' = NoTwice
    /\ UNCHANGED bookOthers

\* the level deletions: updates with quantity 0
DeleteUpdates == {update \in LevelUpdates : update.qty = 0}

\* apply_update(update) called twice in a row with the same delete
apply_delete_twice ==
  \E update \in DeleteUpdates :
    LET once == ApplyUpdate(bids_, asks_, update)
        twice == ApplyUpdate(once[1], once[2], update)
    IN
    /\ bids_' = twice[1]
    /\ asks_' = twice[2]
    /\ last_update_ts_' = twice[3]
    /\ ob_last' = [ob_last EXCEPT ![update.side][update.price] =
                     [seen |-> TRUE, qty |-> update.qty]]
    /\ ob_twice' = [called |-> TRUE,
                    update |-> [side |-> update.side, price |-> update.price],
                    before |-> <<bids_, asks_>>,
                    once |-> <<once[1], once[2]>>]
    /\ ob_bbo' = NoBbo
    /\ ob_snap' = NoSnapshot
    /\ UNCHANGED bookOthers

\* the values the caller's bid and ask variables hold before get_bbo
BboArgs == {0, MaxPrice + 1}

\* a get_bbo that reports the lowest bid
Mut_get_bbo_lowest_bid ==
  /\ \E bid \in BboArgs, ask \in BboArgs :
       ob_bbo' =
         IF DOMAIN bids_ = {} \/ DOMAIN asks_ = {}
           THEN [called |-> TRUE, ret |-> FALSE, bid_in |-> bid, ask_in |-> ask,
                 bid |-> bid, ask |-> ask,
                 book |-> <<bids_, asks_, last_update_ts_>>]
           ELSE [called |-> TRUE, ret |-> TRUE, bid_in |-> bid, ask_in |-> ask,
                 bid |-> MinKey(DOMAIN bids_), ask |-> MinKey(DOMAIN asks_),
                 book |-> <<bids_, asks_, last_update_ts_>>]
  /\ ob_snap' = NoSnapshot
  /\ ob_twice' = NoTwice
  /\ UNCHANGED <<bids_, asks_, last_update_ts_, ob_last>>
  /\ UNCHANGED bookOthers

\* bool get_bbo(Price &bid, Price &ask) const
get_bbo ==
  /\ \E bid \in BboArgs, ask \in BboArgs :
       ob_bbo' =
         IF DOMAIN bids_ = {} \/ DOMAIN asks_ = {}
           THEN [called |-> TRUE, ret |-> FALSE, bid_in |-> bid, ask_in |-> ask,
                 bid |-> bid, ask |-> ask,
                 book |-> <<bids_, asks_, last_update_ts_>>]
           ELSE [called |-> TRUE, ret |-> TRUE, bid_in |-> bid, ask_in |-> ask,
                 bid |-> MaxKey(DOMAIN bids_), ask |-> MinKey(DOMAIN asks_),
                 book |-> <<bids_, asks_, last_update_ts_>>]
  /\ ob_snap' = NoSnapshot
  /\ ob_twice' = NoTwice
  /\ UNCHANGED <<bids_, asks_, last_update_ts_, ob_last>>
  /\ UNCHANGED bookOthers

RECURSIVE CopyLevels(_, _, _, _, _)
\* one loop of get_snapshot: from the iterator position (the keys not yet
\* visited), while it != end && count < n: push_back({first, second}), count++
CopyLevels(out, m, keys, descending, left) ==
  IF keys = {} \/ left = 0
    THEN [levels |-> out, count |-> Len(out)]
    ELSE LET k == IF descending THEN MaxKey(keys) ELSE MinKey(keys) IN
         CopyLevels(Append(out, [price |-> k, qty |-> m[k]]), m, keys \ {k},
                    descending, left - 1)

\* what the caller's vectors may hold before get_snapshot
StaleLevels == {<<>>, <<[price |-> MaxPrice + 1, qty |-> 1]>>}

\* a get_snapshot that appends to the vectors as it finds them
Mut_get_snapshot_no_clear ==
  /\ \E n \in 0 .. MaxPrice + 1, bl \in StaleLevels :
       LET al == bl
           b == CopyLevels(bl, bids_, DOMAIN bids_, TRUE, n)
           a == CopyLevels(al, asks_, DOMAIN asks_, FALSE, n)
       IN  ob_snap' = [called |-> TRUE, n |-> n, bids_in |-> bl, asks_in |-> al,
                       bid_levels |-> b.levels, ask_levels |-> a.levels,
                       ret |-> a.count,
                       book |-> <<bids_, asks_, last_update_ts_>>]
  /\ ob_bbo' = NoBbo
  /\ ob_twice' = NoTwice
  /\ UNCHANGED <<bids_, asks_, last_update_ts_, ob_last>>
  /\ UNCHANGED bookOthers

\* size_t get_snapshot(bid_levels, ask_levels, n) const: clear both vectors,
\* copy from bids_.rbegin() and from asks_.begin(), return the last count
get_snapshot ==
  /\ \E n \in 0 .. MaxPrice + 1, bl \in StaleLevels :
       LET al == bl
           b == CopyLevels(<<>>, bids_, DOMAIN bids_, TRUE, n)
           a == CopyLevels(<<>>, asks_, DOMAIN asks_, FALSE, n)
       IN  ob_snap' = [called |-> TRUE, n |-> n, bids_in |-> bl, asks_in |-> al,
                       bid_levels |-> b.levels, ask_levels |-> a.levels,
                       ret |-> a.count,
                       book |-> <<bids_, asks_, last_update_ts_>>]
  /\ ob_bbo' = NoBbo
  /\ ob_twice' = NoTwice
  /\ UNCHANGED <<bids_, asks_, last_update_ts_, ob_last>>
  /\ UNCHANGED bookOthers

(***************************************************************************)
(* LatencyHistogram and LatencyTracker<MaxSamples> (benchmark.hpp).        *)
(* std::int64_t is modelled with LatBits bits, wide enough for the six     *)
(* finite thresholds; a sample between 1ms and INT64_MAX, such as 10^18,   *)
(* is modelled by INT64_MAX - 1.                                           *)
(***************************************************************************)
INT64_MAX == Pow2(LatBits - 1) - 1
INT64_MIN == -Pow2(LatBits - 1)

\* x reduced to the two's-complement value of the atomic integer
LatWrap(x) == ((x - INT64_MIN) % Pow2(LatBits)) + INT64_MIN

NUM_BUCKETS == 7
BUCKET_THRESHOLDS == <<100, 500, 1000, 10000, 100000, 1000000, INT64_MAX>>

\* the samples fed to a single-threaded tracker: both sides of every finite
\* threshold, negative samples, and the largest values
Samples ==
  {INT64_MIN, -1, INT64_MAX - 1, INT64_MAX}
    \cup {BUCKET_THRESHOLDS[i] - 1 : i \in 1 .. NUM_BUCKETS - 1}
    \cup {BUCKET_THRESHOLDS[i] : i \in 1 .. NUM_BUCKETS - 1}

\* the samples fed to concurrent record calls
HistSamples == {-1, 99, 100, INT64_MAX}

Threads == {"t1", "t2"}

\* content of a samples_ slot never written (the array is not initialised)
Uninit == INT64_MIN - 1

\* LatencyHistogram(), and reset(): every bucket 0, count_ 0, sum_ 0,
\* min_ INT64_MAX, max_ 0
HistInit ==
  [buckets_ |-> [i \in 1 .. NUM_BUCKETS |-> 0], count_ |-> 0, sum_ |-> 0,
   min_ |-> INT64_MAX, max_ |-> 0]

RECURSIVE FindBucket(_, _)
\* for (i = 0; i < NUM_BUCKETS; ++i) if (latency_ns < BUCKET_THRESHOLDS[i]):
\* the bucket that is incremented, counted from 1, or 0 when the loop ends
\* without a break
FindBucket(latency_ns, i) ==
  IF i > NUM_BUCKETS THEN 0
  ELSE IF latency_ns < BUCKET_THRESHOLDS[i] THEN i
  ELSE FindBucket(latency_ns, i + 1)

\* buckets_[i].fetch_add(1) for the bucket found, if any
AddToBucket(buckets, latency_ns) ==
  LET i == FindBucket(latency_ns, 1) IN
  IF i = 0 THEN buckets ELSE [buckets EXCEPT ![i] = @ + 1]

\* void LatencyHistogram::record(latency_ns) run by one thread alone
HistRecord(h, latency_ns) ==
  [buckets_ |-> AddToBucket(h.buckets_, latency_ns),
   count_ |-> LatWrap(h.count_ + 1),
   sum_ |-> LatWrap(h.sum_ + latency_ns),
   min_ |-> IF latency_ns < h.min_ THEN latency_ns ELSE h.min_,
   max_ |-> IF latency_ns > h.max_ THEN latency_ns ELSE h.max_]

\* count(), sum(), min_latency(), max_latency()
count == histogram_.count_
sum == histogram_.sum_
min_latency == IF histogram_.min_ = INT64_MAX THEN 0 ELSE histogram_.min_
max_latency == histogram_.max_

NoRecord == [called |-> FALSE, x |-> 0, before |-> HistInit.buckets_]
NoPercentile == [called |-> FALSE, p |-> 0, n |-> 0, copied |-> <<>>,
                 sorted |-> <<>>, num |-> 0]

\* LatencyTracker(): write_idx_(0), histogram_ constructed, samples_ not
\* initialised; no record call in progress
InitLatVars ==
  /\ histogram_ = HistInit
  /\ samples_ = [i \in 0 .. MaxSamples - 1 |-> Uninit]
  /\ write_idx_ = 0
  /\ tr_hist = <<>>
  /\ tr_last = NoRecord
  /\ tr_pct = NoPercentile
  /\ h_pc = [t \in Threads |-> "idle"]
  /\ h_x = [t \in Threads |-> 0]
  /\ h_cur = [t \in Threads |-> 0]
  /\ h_samples = <<>>

\* a tracker record that overwrites the slot without advancing write_idx_
Mut_tr_record_no_advance ==
  /\ Len(tr_hist) < MaxRecords
  /\ \E latency_ns \in Samples :
       /\ histogram_' = HistRecord(histogram_, latency_ns)
       /\ samples_' = [samples_ EXCEPT ![write_idx_ % MaxSamples] = latency_ns]
       /\ tr_hist' = Append(tr_hist, latency_ns)
       /\ tr_last' = [called |-> TRUE, x |-> latency_ns,
                      before |-> histogram_.buckets_]
  /\ write_idx_' = write_idx_
  /\ tr_pct' = NoPercentile
  /\ UNCHANGED <<h_pc, h_x, h_cur, h_samples>>
  /\ UNCHANGED latOthers

\* void LatencyTracker::record(latency_ns): histogram_.record(latency_ns);
\* idx = write_idx_.fetch_add(1) % MaxSamples; samples_[idx] = latency_ns
tr_record ==
  /\ Len(tr_hist) < MaxRecords
  /\ \E latency_ns \in Samples :
       /\ histogram_' = HistRecord(histogram_, latency_ns)
       /\ samples_' = [samples_ EXCEPT ![write_idx_ % MaxSamples] = latency_ns]
       /\ tr_hist' = Append(tr_hist, latency_ns)
       /\ tr_last' = [called |-> TRUE, x |-> latency_ns,
                      before |-> histogram_.buckets_]
  /\ write_idx_' = write_idx_ + 1
  /\ tr_pct' = NoPercentile
  /\ UNCHANGED <<h_pc, h_x, h_cur, h_samples>>
  /\ UNCHANGED latOthers

\* void LatencyTracker::reset(): histogram_.reset(); write_idx_.store(0)
tr_reset ==
  /\ histogram_' = HistInit
  /\ write_idx_' = 0
  /\ tr_hist' = <<>>
  /\ tr_last' = NoRecord
  /\ tr_pct' = NoPercentile
  /\ UNCHANGED <<samples_, h_pc, h_x, h_cur, h_samples>>
  /\ UNCHANGED latOthers

RECURSIVE SortedInsert(_, _)
SortedInsert(s, v) ==
  IF s = <<>> THEN <<v>>
  ELSE IF v <= Head(s) THEN <<v>> \o s
  ELSE <<Head(s)>> \o SortedInsert(Tail(s), v)

RECURSIVE SortSeq(_)
\* std::sort(sorted.begin(), sorted.end())
SortSeq(s) == IF s = <<>> THEN <<>> ELSE SortedInsert(SortSeq(Tail(s)), Head(s))

\* the percentiles asked for; p / 100.0 is exact in a double for each
Percents == {0, 25, 50, 75, 100}

\* a percentile that interpolates over the samples in the order they are stored
Mut_percentile_no_sort ==
  /\ \E p \in Percents :
       LET n == Min(count, MaxSamples)
           copied == [i \in 1 .. n |-> samples_[i - 1]]
           sorted == copied
           idx100 == p * (n - 1)
           lower == idx100 \div 100
           upper == Min(lower + 1, n - 1)
           frac100 == idx100 % 100
       IN  tr_pct' =
             IF n = 0
               THEN [called |-> TRUE, p |-> p, n |-> 0, copied |-> <<>>,
                     sorted |-> <<>>, num |-> 0]
               ELSE [called |-> TRUE, p |-> p, n |-> n, copied |-> copied,
                     sorted |-> sorted,
                     num |-> sorted[lower + 1] * (100 - frac100)
                               + sorted[upper + 1] * frac100]
  /\ UNCHANGED <<histogram_, samples_, write_idx_, tr_hist, tr_last>>
  /\ UNCHANGED <<h_pc, h_x, h_cur, h_samples>>
  /\ UNCHANGED latOthers

\* double percentile(p): n = min(count(), MaxSamples); 0.0 if n == 0; else
\* copy samples_[0 .. n), sort, idx = p / 100 * (n - 1), lower = floor(idx),
\* upper = min(lower + 1, n - 1), frac = idx - lower; num is 100 times the
\* returned sorted[lower] * (1 - frac) + sorted[upper] * frac
percentile ==
  /\ \E p \in Percents :
       LET n == Min(count, MaxSamples)
           copied == [i \in 1 .. n |-> samples_[i - 1]]
           sorted == SortSeq(copied)
           idx100 == p * (n - 1)
           lower == idx100 \div 100
           upper == Min(lower + 1, n - 1)
           frac100 == idx100 % 100
       IN  tr_pct' =
             IF n = 0
               THEN [called |-> TRUE, p |-> p, n |-> 0, copied |-> <<>>,
                     sorted |-> <<>>, num |-> 0]
               ELSE [called |-> TRUE, p |-> p, n |-> n, copied |-> copied,
                     sorted |-> sorted,
                     num |-> sorted[lower + 1] * (100 - frac100)
                               + sorted[upper + 1] * frac100]
  /\ UNCHANGED <<histogram_, samples_, write_idx_, tr_hist, tr_last>>
  /\ UNCHANGED <<h_pc, h_x, h_cur, h_samples>>
  /\ UNCHANGED latOthers

(***************************************************************************)
(* LatencyHistogram::record called by several threads, every atomic        *)
(* operation a step of its own                                             *)
(***************************************************************************)
trackerVars == <<samples_, write_idx_, tr_hist, tr_last, tr_pct>>

\* thread t calls record(latency_ns)
h_call(t) ==
  /\ h_pc[t] = "idle"
  /\ Len(h_samples) < MaxRecords
  /\ \E latency_ns \in HistSamples :
       /\ h_x' = [h_x EXCEPT ![t] = latency_ns]
       /\ h_samples' = Append(h_samples, latency_ns)
  /\ h_pc' = [h_pc EXCEPT ![t] = "count"]
  /\ UNCHANGED <<histogram_, h_cur>>
  /\ UNCHANGED trackerVars
  /\ UNCHANGED latOthers

\* count_.fetch_add(1, relaxed)
h_count(t) ==
  /\ h_pc[t] = "count"
  /\ histogram_' = [histogram_ EXCEPT !.count_ = LatWrap(@ + 1)]
  /\ h_pc' = [h_pc EXCEPT ![t] = "sum"]
  /\ UNCHANGED <<h_x, h_cur, h_samples>>
  /\ UNCHANGED trackerVars
  /\ UNCHANGED latOthers

\* sum_.fetch_add(latency_ns, relaxed)
h_sum(t) ==
  /\ h_pc[t] = "sum"
  /\ histogram_' = [histogram_ EXCEPT !.sum_ = LatWrap(@ + h_x[t])]
  /\ h_pc' = [h_pc EXCEPT ![t] = "min_load"]
  /\ UNCHANGED <<h_x, h_cur, h_samples>>
  /\ UNCHANGED trackerVars
  /\ UNCHANGED latOthers

\* current_min = min_.load(relaxed)
h_min_load(t) ==
  /\ h_pc[t] = "min_load"
  /\ h_cur' = [h_cur EXCEPT ![t] = histogram_.min_]
  /\ h_pc' = [h_pc EXCEPT ![t] = "min_loop"]
  /\ UNCHANGED <<histogram_, h_x, h_samples>>
  /\ UNCHANGED trackerVars
  /\ UNCHANGED latOthers

\* while (latency_ns < current_min &&
\*        !min_.compare_exchange_weak(current_min, latency_ns, relaxed));
\* a failed exchange, spurious or not, loads min_ into current_min
h_min_loop(t) ==
  /\ h_pc[t] = "min_loop"
  /\ IF h_x[t] < h_cur[t]
       THEN \/ /\ histogram_.min_ = h_cur[t]
               /\ histogram_' = [histogram_ EXCEPT !.min_ = h_x[t]]
               /\ h_pc' = [h_pc EXCEPT ![t] = "max_load"]
               /\ UNCHANGED h_cur
            \/ /\ h_cur' = [h_cur EXCEPT ![t] = histogram_.min_]
               /\ UNCHANGED <<histogram_, h_pc>>
       ELSE /\ h_pc' = [h_pc EXCEPT ![t] = "max_load"]
            /\ UNCHANGED <<histogram_, h_cur>>
  /\ UNCHANGED <<h_x, h_samples>>
  /\ UNCHANGED trackerVars
  /\ UNCHANGED latOthers

\* current_max = max_.load(relaxed)
h_max_load(t) ==
  /\ h_pc[t] = "max_load"
  /\ h_cur' = [h_cur EXCEPT ![t] = histogram_.max_]
  /\ h_pc' = [h_pc EXCEPT ![t] = "max_loop"]
  /\ UNCHANGED <<histogram_, h_x, h_samples>>
  /\ UNCHANGED trackerVars
  /\ UNCHANGED latOthers

\* while (latency_ns > current_max &&
\*        !max_.compare_exchange_weak(current_max, latency_ns, relaxed));
h_max_loop(t) ==
  /\ h_pc[t] = "max_loop"
  /\ IF h_x[t] > h_cur[t]
       THEN \/ /\ histogram_.max_ = h_cur[t]
               /\ histogram_' = [histogram_ EXCEPT !.max_ = h_x[t]]
               /\ h_pc' = [h_pc EXCEPT ![t] = "bucket"]
               /\ UNCHANGED h_cur
            \/ /\ h_cur' = [h_cur EXCEPT ![t] = histogram_.max_]
               /\ UNCHANGED <<histogram_, h_pc>>
       ELSE /\ h_pc' = [h_pc EXCEPT ![t] = "bucket"]
            /\ UNCHANGED <<histogram_, h_cur>>
  /\ UNCHANGED <<h_x, h_samples>>
  /\ UNCHANGED trackerVars
  /\ UNCHANGED latOthers

\* the bucket loop with its one buckets_[i].fetch_add(1, relaxed); return
h_bucket(t) ==
  /\ h_pc[t] = "bucket"
  /\ histogram_' = [histogram_ EXCEPT !.buckets_ = AddToBucket(@, h_x[t])]
  /\ h_pc' = [h_pc EXCEPT ![t] = "idle"]
  /\ h_x' = [h_x EXCEPT ![t] = 0]
  /\ h_cur' = [h_cur EXCEPT ![t] = 0]
  /\ UNCHANGED h_samples
  /\ UNCHANGED trackerVars
  /\ UNCHANGED latOthers

h_record_call == \E t \in Threads : h_call(t)
h_record_count == \E t \in Threads : h_count(t)
h_record_sum == \E t \in Threads : h_sum(t)
h_record_min_load == \E t \in Threads : h_min_load(t)
h_record_min_loop == \E t \in Threads : h_min_loop(t)
h_record_max_load == \E t \in Threads : h_max_load(t)
h_record_max_loop == \E t \in Threads : h_max_loop(t)
h_record_bucket == \E t \in Threads : h_bucket(t)

(***************************************************************************)
(* double values.  A double is modelled by the rational number it stands   *)
(* for, [num, den] in lowest terms with den > 0; the rounding of double    *)
(* arithmetic is not modelled.                                             *)
(***************************************************************************)
RECURSIVE GCD(_, _)
GCD(a, b) == IF b = 0 THEN a ELSE GCD(b, a % b)

Abs(x) == IF x < 0 THEN -x ELSE x

\* n / d for d > 0
Rat(n, d) == LET g == GCD(Abs(n), d) IN [num |-> n \div g, den |-> d \div g]

\* the least common denominator of a and b
CommonDen(a, b) == (a.den \div GCD(a.den, b.den)) * b.den

RatAdd(a, b) ==
  LET l == CommonDen(a, b) IN
  Rat(a.num * (l \div a.den) + b.num * (l \div b.den), l)

RatNeg(a) == [num |-> -a.num, den |-> a.den]

RatSub(a, b) == RatAdd(a, RatNeg(b))

RatMul(a, b) ==
  LET x == Rat(a.num, b.den)
      y == Rat(b.num, a.den)
  IN  [num |-> x.num * y.num, den |-> x.den * y.den]

\* a < b
RatLess(a, b) ==
  LET l == CommonDen(a, b) IN a.num * (l \div a.den) < b.num * (l \div b.den)

RECURSIVE Pow10(_)
Pow10(n) == IF n = 0 THEN 1 ELSE 10 * Pow10(n - 1)

(***************************************************************************)
(* Price and Quantity conversions (types.hpp), with the scale 10^8 of the  *)
(* code reduced to 10^ScaleDigits                                          *)
(***************************************************************************)
PRICE_SCALE == Pow10(ScaleDigits)
QTY_SCALE == Pow10(ScaleDigits)

\* static_cast<int64_t>(x >= 0.0 ? x + 0.5 : x - 0.5): the cast truncates
\* towards zero
round_dbl(x) ==
  IF x.num >= 0 THEN (2 * x.num + x.den) \div (2 * x.den)
  ELSE -((2 * (-x.num) + x.den) \div (2 * x.den))

\* Price::from_float(p), Price::to_float(), Quantity::from_float(q)
Price_from_float(p) == round_dbl(RatMul(p, Rat(PRICE_SCALE, 1)))
Price_to_float(ticks) == Rat(ticks, PRICE_SCALE)
Quantity_from_float(q) == round_dbl(RatMul(q, Rat(QTY_SCALE, 1)))

(***************************************************************************)
(* EWMA (feature_calculator.hpp)                                           *)
(***************************************************************************)
\* EWMA(double alpha): alpha_(alpha), value_(0.0), initialized_(false)
EWMA(alpha) == [alpha_ |-> alpha, value_ |-> Rat(0, 1), initialized_ |-> FALSE]

\* a variable that holds no EWMA object yet
NoEwma == [alpha_ |-> Rat(0, 1), value_ |-> Rat(0, 1), initialized_ |-> FALSE,
           constructed |-> FALSE]

\* an update that decays the first sample like every other
Mut_EWMA_update_decay_first(e, x) ==
  [e EXCEPT !.value_ = RatAdd(RatMul(e.alpha_, x),
                              RatMul(RatSub(Rat(1, 1), e.alpha_), e.value_)),
            !.initialized_ = TRUE]

\* an update with the two weights exchanged
Mut_EWMA_update_swapped(e, x) ==
  IF ~e.initialized_
    THEN [e EXCEPT !.value_ = x, !.initialized_ = TRUE]
    ELSE [e EXCEPT !.value_ = RatAdd(RatMul(RatSub(Rat(1, 1), e.alpha_), x),
                                     RatMul(e.alpha_, e.value_))]

\* void EWMA::update(double x)
EWMA_update(e, x) ==
  IF ~e.initialized_
    THEN [e EXCEPT !.value_ = x, !.initialized_ = TRUE]
    ELSE [e EXCEPT !.value_ = RatAdd(RatMul(e.alpha_, x),
                                     RatMul(RatSub(Rat(1, 1), e.alpha_),
                                            e.value_))]

\* double EWMA::value() const
EWMA_value(e) == e.value_

\* the alphas an EWMA is constructed with and the samples it is fed
Alphas == {Rat(-1, 2), Rat(0, 1), Rat(1, 10), Rat(1, 2), Rat(1, 1), Rat(3, 2)}
EwmaSamples == {Rat(-2, 1), Rat(0, 1), Rat(1, 2), Rat(3, 1)}

\* EWMA ewma(alpha)
ewma_new ==
  /\ ~ewma_.constructed
  /\ \E alpha \in Alphas :
       ewma_' = [alpha_ |-> alpha, value_ |-> EWMA(alpha).value_,
                 initialized_ |-> EWMA(alpha).initialized_,
                 constructed |-> TRUE]
  /\ UNCHANGED <<target_id_, threshold_, price_ewma_, st_hist, st_last,
                 st_shadow, ew_hist>>
  /\ UNCHANGED stratOthers

\* ewma.update(x)
ewma_update ==
  /\ ewma_.constructed
  /\ Len(ew_hist) < MaxUpdates
  /\ \E x \in EwmaSamples :
       /\ ewma_' = EWMA_update(ewma_, x)
       /\ ew_hist' = Append(ew_hist, x)
  /\ UNCHANGED <<target_id_, threshold_, price_ewma_, st_hist, st_last,
                 st_shadow>>
  /\ UNCHANGED stratOthers

(***************************************************************************)
(* StatArbStrategy (stat_arb.hpp)                                          *)
(***************************************************************************)
StratSymbols == {1, 2}

\* trade prices 0.95, 1.00 and 1.05, in ticks
StratPrices ==
  {PRICE_SCALE - PRICE_SCALE \div 20, PRICE_SCALE,
   PRICE_SCALE + PRICE_SCALE \div 20}

StratTrades == [symbol_id : StratSymbols, price : StratPrices]

\* the entry thresholds: negative, zero, below and at the deviation 0.045 that
\* a move from 1.00 to 1.05 gives
Thresholds == {Rat(-1, 100), Rat(0, 1), Rat(1, 25), Rat(9, 200)}

NoTrade == [called |-> FALSE, trade |-> [symbol_id |-> 0, price |-> 0],
            signal |-> NoSignal, before |-> EWMA(Rat(1, 10)),
            alone |-> NoSignal]

\* an on_trade that leaves the quantity of the signal at its default
Mut_StatArb_on_trade_no_qty(target_id, threshold, ewma, trade) ==
  IF trade.symbol_id # target_id
    THEN [signal |-> NoSignal, ewma |-> ewma]
    ELSE
      LET px == Price_to_float(trade.price)
          updated == EWMA_update(ewma, px)
          fairness == EWMA_value(updated)
          deviation == RatSub(px, fairness)
          fired(side) ==
            [should_trade |-> TRUE, symbol_id |-> target_id, side |-> side,
             price |-> trade.price, qty |-> 0,
             ref_price |-> Price_from_float(fairness)]
      IN  [signal |-> IF RatLess(threshold, deviation) THEN fired("Sell")
                      ELSE IF RatLess(deviation, RatNeg(threshold))
                        THEN fired("Buy")
                      ELSE NoSignal,
           ewma |-> updated]

\* an on_trade that updates the EWMA with every trade
Mut_StatArb_on_trade_no_filter(target_id, threshold, ewma, trade) ==
  LET px == Price_to_float(trade.price)
      updated == EWMA_update(ewma, px)
      fairness == EWMA_value(updated)
      deviation == RatSub(px, fairness)
      fired(side) ==
        [should_trade |-> TRUE, symbol_id |-> target_id, side |-> side,
         price |-> trade.price, qty |-> Quantity_from_float(Rat(1, 100)),
         ref_price |-> Price_from_float(fairness)]
  IN  [signal |-> IF trade.symbol_id # target_id THEN NoSignal
                  ELSE IF RatLess(threshold, deviation) THEN fired("Sell")
                  ELSE IF RatLess(deviation, RatNeg(threshold))
                    THEN fired("Buy")
                  ELSE NoSignal,
       ewma |-> updated]

\* an on_trade that tests the deviation against the magnitude only
Mut_StatArb_on_trade_sell_only(target_id, threshold, ewma, trade) ==
  IF trade.symbol_id # target_id
    THEN [signal |-> NoSignal, ewma |-> ewma]
    ELSE
      LET px == Price_to_float(trade.price)
          updated == EWMA_update(ewma, px)
          fairness == EWMA_value(updated)
          deviation == RatSub(px, fairness)
          fired(side) ==
            [should_trade |-> TRUE, symbol_id |-> target_id, side |-> side,
             price |-> trade.price, qty |-> Quantity_from_float(Rat(1, 100)),
             ref_price |-> Price_from_float(fairness)]
      IN  [signal |-> IF RatLess(threshold, deviation) THEN fired("Sell")
                      ELSE IF RatLess(deviation, RatNeg(threshold))
                        THEN fired("Sell")
                      ELSE NoSignal,
           ewma |-> updated]

\* Signal StatArbStrategy::on_trade(const Trade &trade): the signal returned
\* and price_ewma_ after the call
StatArb_on_trade(target_id, threshold, ewma, trade) ==
  IF trade.symbol_id # target_id
    THEN [signal |-> NoSignal, ewma |-> ewma]
    ELSE
      LET px == Price_to_float(trade.price)
          updated == EWMA_update(ewma, px)
          fairness == EWMA_value(updated)
          deviation == RatSub(px, fairness)
          fired(side) ==
            [should_trade |-> TRUE, symbol_id |-> target_id, side |-> side,
             price |-> trade.price, qty |-> Quantity_from_float(Rat(1, 100)),
             ref_price |-> Price_from_float(fairness)]
      IN  [signal |-> IF RatLess(threshold, deviation) THEN fired("Sell")
                      ELSE IF RatLess(deviation, RatNeg(threshold))
                        THEN fired("Buy")
                      ELSE NoSignal,
           ewma |-> updated]

\* StatArbStrategy(target_id, entry_threshold): price_ewma_(0.1); no EWMA is
\* used on its own
InitStratVars ==
  /\ target_id_ = 1
  /\ threshold_ = Rat(1, 25)
  /\ price_ewma_ = EWMA(Rat(1, 10))
  /\ st_hist = <<>>
  /\ st_last = NoTrade
  /\ st_shadow = EWMA(Rat(1, 10))
  /\ ewma_ = NoEwma
  /\ ew_hist = <<>>

\* strategy.on_trade(trade)
strat_on_trade ==
  /\ Len(st_hist) < MaxStratTrades
  /\ \E trade \in StratTrades :
       LET r == StatArb_on_trade(target_id_, threshold_, price_ewma_, trade) IN
       /\ price_ewma_' = r.ewma
       /\ st_hist' = Append(st_hist, trade)
       /\ st_last' = [called |-> TRUE, trade |-> trade, signal |-> r.signal,
                      before |-> price_ewma_,
                      alone |-> StatArb_on_trade(target_id_, threshold_,
                                                 st_shadow, trade).signal]
       /\ st_shadow' = IF trade.symbol_id = target_id_
                         THEN EWMA_update(st_shadow, Price_to_float(trade.price))
                         ELSE st_shadow
  /\ UNCHANGED <<target_id_, threshold_, ewma_, ew_hist>>
  /\ UNCHANGED stratOthers

(***************************************************************************)
(* Price operators (types.hpp): ticks is a signed word; an addition or a   *)
(* subtraction whose exact result is no word overflows, which is undefined *)
(* and may leave any word                                                  *)
(***************************************************************************)
\* a sum that saturates at the largest and the smallest word
Mut_Price_add_saturating(a, b) ==
  IF InWord(a + b) THEN {a + b}
  ELSE IF a + b > WordMax THEN {WordMax} ELSE {WordMin}

\* Price operator+(const Price &other) const: the ticks it may return
Price_add(a, b) == IF InWord(a + b) THEN {a + b} ELSE Words

\* Price operator-(const Price &other) const: the ticks it may return
Price_sub(a, b) == IF InWord(a - b) THEN {a - b} ELSE Words

\* operator==, !=, <, >, <=, >=
Price_eq(a, b) == a = b
Price_ne(a, b) == a # b
Price_lt(a, b) == a < b
Price_gt(a, b) == a > b
Price_le(a, b) == a <= b
Price_ge(a, b) == a >= b

NoOp == [op |-> "none", r |-> 0, back |-> 0, eq |-> FALSE, ne |-> FALSE,
         lt |-> FALSE, gt |-> FALSE, le |-> FALSE, ge |-> FALSE]

InitPriceVars ==
  /\ pr_a = 0
  /\ pr_b = 0
  /\ pr_last = NoOp

\* each behaviour applies one operator to one pair of prices
\* r = a + b; back = r - b
price_add ==
  /\ pr_last.op = "none"
  /\ \E r \in Price_add(pr_a, pr_b) : \E back \in Price_sub(r, pr_b) :
       pr_last' = [NoOp EXCEPT !.op = "add", !.r = r, !.back = back]
  /\ UNCHANGED <<pr_a, pr_b>>
  /\ UNCHANGED priceOthers

\* r = a - b; back = r + b
price_sub ==
  /\ pr_last.op = "none"
  /\ \E r \in Price_sub(pr_a, pr_b) : \E back \in Price_add(r, pr_b) :
       pr_last' = [NoOp EXCEPT !.op = "sub", !.r = r, !.back = back]
  /\ UNCHANGED <<pr_a, pr_b>>
  /\ UNCHANGED priceOthers

\* the six comparisons of a with b
price_compare ==
  /\ pr_last.op = "none"
  /\ pr_last' = [NoOp EXCEPT !.op = "cmp",
                             !.eq = Price_eq(pr_a, pr_b),
                             !.ne = Price_ne(pr_a, pr_b),
                             !.lt = Price_lt(pr_a, pr_b),
                             !.gt = Price_gt(pr_a, pr_b),
                             !.le = Price_le(pr_a, pr_b),
                             !.ge = Price_ge(pr_a, pr_b)]
  /\ UNCHANGED <<pr_a, pr_b>>
  /\ UNCHANGED priceOthers

(***************************************************************************)
(* main() and MockFeeder (main.cpp).  A LOG_INFO call of the main thread   *)
(* and a logf call of the feeder thread each span from the call to the     *)
(* return of Logger::log / logf, which pushes on the logger's queue_.      *)
(***************************************************************************)
\* main() entered, MockFeeder not constructed: bool running_ = true, no thread
InitMainVars ==
  /\ mn_pc = "at68"
  /\ fd_pc = "off"
  /\ fd_running_ = TRUE
  /\ fd_trades = 0
  /\ mn_logs = 0
  /\ fd_logs = 0

\* core::Logger::instance().init("hft_engine.log")
mn_logger_init ==
  /\ mn_pc = "at68"
  /\ mn_pc' = "at69"
  /\ UNCHANGED <<fd_pc, fd_running_, fd_trades, mn_logs, fd_logs>>
  /\ UNCHANGED mainOthers

\* main calls LOG_INFO(...) at line 69, 89 or 96
mn_log_call ==
  /\ mn_pc \in {"at69", "at89", "at96"}
  /\ mn_pc' = CASE mn_pc = "at69" -> "in69"
                [] mn_pc = "at89" -> "in89"
                [] mn_pc = "at96" -> "in96"
  /\ mn_logs' = mn_logs + 1
  /\ UNCHANGED <<fd_pc, fd_running_, fd_trades, fd_logs>>
  /\ UNCHANGED mainOthers

\* the LOG_INFO call returns
mn_log_return ==
  /\ mn_pc \in {"in69", "in89", "in96"}
  /\ mn_pc' = CASE mn_pc = "in69" -> "at72"
                [] mn_pc = "in89" -> "at90"
                [] mn_pc = "in96" -> "at97"
  /\ UNCHANGED <<fd_pc, fd_running_, fd_trades, mn_logs, fd_logs>>
  /\ UNCHANGED mainOthers

\* risk_cfg, gateway, strategy, engine, feeder, feeder.set_on_trade(...)
mn_setup ==
  /\ mn_pc = "at72"
  /\ mn_pc' = "at89"
  /\ UNCHANGED <<fd_pc, fd_running_, fd_trades, mn_logs, fd_logs>>
  /\ UNCHANGED mainOthers

\* feeder.key_start(): worker_ = std::thread(...)
mn_key_start ==
  /\ mn_pc = "at90"
  /\ mn_pc' = "at94"
  /\ fd_pc' = "test"
  /\ UNCHANGED <<fd_running_, fd_trades, mn_logs, fd_logs>>
  /\ UNCHANGED mainOthers

\* std::cin.ignore() returns
mn_enter ==
  /\ mn_pc = "at94"
  /\ mn_pc' = "at96"
  /\ UNCHANGED <<fd_pc, fd_running_, fd_trades, mn_logs, fd_logs>>
  /\ UNCHANGED mainOthers

\* feeder.stop(): running_ = false; worker_ is joinable
mn_feeder_stop ==
  /\ mn_pc = "at97"
  /\ fd_running_' = FALSE
  /\ mn_pc' = "join"
  /\ UNCHANGED <<fd_pc, fd_trades, mn_logs, fd_logs>>
  /\ UNCHANGED mainOthers

\* worker_.join() returns once the feeder thread has ended; feeder.stop()
\* returns
mn_join ==
  /\ mn_pc = "join"
  /\ fd_pc = "done"
  /\ mn_pc' = "at98"
  /\ UNCHANGED <<fd_pc, fd_running_, fd_trades, mn_logs, fd_logs>>
  /\ UNCHANGED mainOthers

\* core::Logger::instance().stop(); return 0
mn_logger_stop ==
  /\ mn_pc = "at98"
  /\ mn_pc' = "exit"
  /\ UNCHANGED <<fd_pc, fd_running_, fd_trades, mn_logs, fd_logs>>
  /\ UNCHANGED mainOthers

\* while (running_): running_ is a plain bool written by main without
\* synchronisation, so the thread may read the value stored or still true
fd_test ==
  /\ fd_pc = "test"
  /\ \E seen \in {fd_running_, TRUE} :
       IF seen
         THEN fd_trades < MaxFeeds /\ fd_pc' = "trade"
         ELSE fd_pc' = "done"
  /\ UNCHANGED <<mn_pc, fd_running_, fd_trades, mn_logs, fd_logs>>
  /\ UNCHANGED mainOthers

\* the trade is built and on_trade_(t) runs engine.on_trade(t): when the
\* signal has should_trade, execute_signal calls logf (ORDER_SENT or
\* RISK_REJECT)
fd_on_trade ==
  /\ fd_pc = "trade"
  /\ fd_trades' = fd_trades + 1
  /\ \E should_trade \in BOOLEAN :
       IF should_trade
         THEN fd_pc' = "in_logf" /\ fd_logs' = fd_logs + 1
         ELSE fd_pc' = "sleep" /\ fd_logs' = fd_logs
  /\ UNCHANGED <<mn_pc, fd_running_, mn_logs>>
  /\ UNCHANGED mainOthers

\* logf, execute_signal and on_trade return
fd_logf_return ==
  /\ fd_pc = "in_logf"
  /\ fd_pc' = "sleep"
  /\ UNCHANGED <<mn_pc, fd_running_, fd_trades, mn_logs, fd_logs>>
  /\ UNCHANGED mainOthers

\* std::this_thread::sleep_for(100us)
fd_sleep ==
  /\ fd_pc = "sleep"
  /\ fd_pc' = "test"
  /\ UNCHANGED <<mn_pc, fd_running_, fd_trades, mn_logs, fd_logs>>
  /\ UNCHANGED mainOthers

(***************************************************************************)
(* Specifications                                                          *)
(***************************************************************************)
RingParked == InitRing /\ cap = 2

EngineParked ==
  /\ InitEngineRest
  /\ config_ = [max_order_qty |-> 1, max_price_deviation |-> 1,
                max_orders_per_sec |-> 1]

RiskParked ==
  /\ InitRiskVars
  /\ rk_cmd = [symbol_id |-> 1, order_id |-> 1, price |-> 0, qty |-> 1,
               side |-> "Buy"]
  /\ rk_ref = 0

NextRing == Producer \/ Consumer

InitSpecRing ==
  /\ InitRing /\ EngineParked /\ RiskParked /\ InitLoggerVars
  /\ InitBookVars
  /\ InitLatVars
  /\ InitMainVars
  /\ InitStratVars
  /\ InitPriceVars

SpecRing == InitSpecRing /\ [][NextRing]_vars

\* the ring with a consumer that may also call advance() at any time
NextRingAny == Producer \/ Consumer \/ c_call_advance

SpecRingAny == InitSpecRing /\ [][NextRingAny]_vars

NextEngine ==
  \/ on_trade
  \/ trigger
  \/ reset
  \/ is_active
  \/ process_logs_pop

InitSpecEngine ==
  /\ RingParked /\ InitEngineVars /\ RiskParked /\ InitLoggerVars
  /\ InitBookVars
  /\ InitLatVars
  /\ InitMainVars
  /\ InitStratVars
  /\ InitPriceVars

SpecEngine == InitSpecEngine /\ [][NextEngine]_vars

NextRisk == rk_check \/ rk_tick

InitSpecRisk ==
  /\ RingParked
  /\ config_ \in RiskCheckConfigs
  /\ InitEngineRest
  /\ InitRiskVars
  /\ InitLoggerVars
  /\ InitBookVars
  /\ InitLatVars
  /\ InitMainVars
  /\ InitStratVars
  /\ InitPriceVars

SpecRisk == InitSpecRisk /\ [][NextRisk]_vars

NextLogger ==
  \/ lg_init
  \/ lg_log
  \/ lg_stop_call
  \/ lg_stop_join
  \/ p_push_load_head
  \/ p_push_load_tail
  \/ p_push_write
  \/ p_push_store_head
  \/ w_loop_test
  \/ w_front_return
  \/ w_pop_return
  \/ c_pop_load_tail
  \/ c_pop_load_head
  \/ c_pop_read
  \/ c_pop_store_tail
  \/ c_front_load_tail
  \/ c_front_load_head

InitSpecLogger ==
  /\ InitRing
  /\ cap = LogCapacity
  /\ EngineParked
  /\ RiskParked
  /\ InitLoggerVars
  /\ InitBookVars
  /\ InitLatVars
  /\ InitMainVars
  /\ InitStratVars
  /\ InitPriceVars

SpecLogger == InitSpecLogger /\ [][NextLogger]_vars

\* the client thread is scheduled, the worker thread may or may not be
SpecLoggerClient == SpecLogger /\ WF_vars(LogSteps)

\* the worker thread is scheduled and join() returns once it has ended
SpecLoggerWorker ==
  SpecLogger /\ WF_vars(WorkerSteps) /\ WF_vars(lg_stop_join)

NextBook == apply_update \/ get_bbo \/ get_snapshot

InitSpecBook ==
  /\ RingParked
  /\ EngineParked
  /\ RiskParked
  /\ InitLoggerVars
  /\ InitBookVars
  /\ InitLatVars
  /\ InitMainVars
  /\ InitStratVars
  /\ InitPriceVars

SpecBook == InitSpecBook /\ [][NextBook]_vars

InitSpecLat ==
  /\ RingParked
  /\ EngineParked
  /\ RiskParked
  /\ InitLoggerVars
  /\ InitBookVars
  /\ InitLatVars
  /\ InitMainVars
  /\ InitStratVars
  /\ InitPriceVars

NextTracker == tr_record \/ tr_reset \/ percentile

SpecTracker == InitSpecLat /\ [][NextTracker]_vars

NextHistogram ==
  \/ h_record_call
  \/ h_record_count
  \/ h_record_sum
  \/ h_record_min_load
  \/ h_record_min_loop
  \/ h_record_max_load
  \/ h_record_max_loop
  \/ h_record_bucket

SpecHistogram == InitSpecLat /\ [][NextHistogram]_vars

NextBookDelete == apply_update \/ apply_delete_twice

SpecBookDelete == InitSpecBook /\ [][NextBookDelete]_vars

InitSpecStrategy ==
  /\ RingParked
  /\ EngineParked
  /\ RiskParked
  /\ InitLoggerVars
  /\ InitBookVars
  /\ InitLatVars
  /\ InitMainVars
  /\ InitPriceVars
  /\ target_id_ \in StratSymbols
  /\ threshold_ \in Thresholds
  /\ price_ewma_ = EWMA(Rat(1, 10))
  /\ st_hist = <<>>
  /\ st_last = NoTrade
  /\ st_shadow = EWMA(Rat(1, 10))
  /\ ewma_ = NoEwma
  /\ ew_hist = <<>>

NextStrategy == strat_on_trade

SpecStrategy == InitSpecStrategy /\ [][NextStrategy]_vars

InitSpecEwma ==
  /\ RingParked
  /\ EngineParked
  /\ RiskParked
  /\ InitLoggerVars
  /\ InitBookVars
  /\ InitLatVars
  /\ InitMainVars
  /\ InitStratVars
  /\ InitPriceVars

NextEwma == ewma_new \/ ewma_update

SpecEwma == InitSpecEwma /\ [][NextEwma]_vars

InitSpecPrice ==
  /\ RingParked
  /\ EngineParked
  /\ RiskParked
  /\ InitLoggerVars
  /\ InitBookVars
  /\ InitLatVars
  /\ InitMainVars
  /\ InitStratVars
  /\ pr_a \in Words
  /\ pr_b \in Words
  /\ pr_last = NoOp

NextPrice == price_add \/ price_sub \/ price_compare

SpecPrice == InitSpecPrice /\ [][NextPrice]_vars

InitSpecMain ==
  /\ RingParked
  /\ EngineParked
  /\ RiskParked
  /\ InitLoggerVars
  /\ InitBookVars
  /\ InitStratVars
  /\ InitPriceVars
  /\ InitLatVars
  /\ InitMainVars

NextMain ==
  \/ mn_logger_init
  \/ mn_log_call
  \/ mn_log_return
  \/ mn_setup
  \/ mn_key_start
  \/ mn_enter
  \/ mn_feeder_stop
  \/ mn_join
  \/ mn_logger_stop
  \/ fd_test
  \/ fd_on_trade
  \/ fd_logf_return
  \/ fd_sleep

SpecMain == InitSpecMain /\ [][NextMain]_vars

(***************************************************************************)
(* Claims on the ring buffer (SpecRing)                                    *)
(***************************************************************************)

\* C1: in every reachable state the items handed to the consumer followed by
\* the items still buffered (oldest first) are exactly the items of the
\* successful pushes, in push order: nothing lost, duplicated or reordered.
C1_Fifo ==
  /\ Len(popped) <= Len(pushed)
  /\ popped = SubSeq(pushed, 1, Len(popped))
  /\ pushed = popped \o Contents

\* three items went through a ring of capacity 2 (the indices wrapped) and
\* came out in push order
C1_Witness ==
  /\ cap = 2
  /\ Len(popped) = 3
  /\ popped[1] # popped[2]
  /\ popped = pushed

\* C2: whenever the consumer is about to read a slot (in pop, or through the
\* pointer front() returned) the slot is published and not yet released, and
\* whenever the producer is about to write a slot it holds no unread item.
C2_NoRace ==
  /\ c_pc = "pop_read" => Published(c_tail)
  /\ c_pc = "front_ok" => Published(c_ptr)
  /\ p_pc = "push_write" => ~Published(p_head)

\* the producer is writing one slot while the consumer reads another one
C2_Witness ==
  /\ p_pc = "push_write"
  /\ c_pc \in {"pop_read", "front_ok"}
  /\ Unread >= 1

\* C3: at most cap - 1 items are unread, and a push succeeds exactly when
\* fewer than cap - 1 items are unread at the moment it loads tail_.
C3_Capacity ==
  /\ 0 <= Unread /\ Unread <= cap - 1
  /\ p_pc \in {"push_write", "push_store_head"} => p_snap.unread < cap - 1
  /\ p_ret = "true" => p_snap.unread < cap - 1
  /\ p_ret = "false" => p_snap.unread = cap - 1

\* a push on a ring of capacity 4 holding 3 items was refused
C3_Witness ==
  /\ cap = 4
  /\ Unread = 3
  /\ p_pc = "idle"
  /\ p_ret = "false"

\* a push returns false
PushFullReturn == p_pc = "push_load_tail" /\ p_pc' = "idle"

\* a pop returns false
PopEmptyReturn == c_pc = "pop_load_head" /\ c_pc' = "idle"

\* C4: a push that returns false found the ring full and leaves head_, tail_
\* and every slot as they were when it was called; a pop that returns false
\* found the ring empty and leaves head_, tail_, every slot and its output
\* argument as they were when it was called.
C4_FailedCallNoEffect ==
  [][ /\ PushFullReturn =>
           /\ p_ret' = "false"
           /\ Unread = cap - 1
           /\ head_' = p_snap.head
           /\ buffer_' = p_snap.buffer
           /\ tail_' = tail_
      /\ PopEmptyReturn =>
           /\ c_ret' = "false"
           /\ Unread = 0
           /\ tail_' = c_snap.tail
           /\ c_item' = c_snap.item
           /\ head_' = head_
           /\ buffer_' = buffer_
      /\ (p_pc' # p_pc /\ p_pc \in {"idle", "push_load_head", "push_load_tail"}) =>
           UNCHANGED <<head_, tail_, buffer_>>
      /\ (c_pc' # c_pc /\ c_pc' \in {"pop_load_tail", "pop_load_head"}) =>
           UNCHANGED <<head_, tail_, buffer_, c_item>>
    ]_vars

\* a push was refused on a full ring, and a pop was refused on an empty ring
\* while the caller's variable held an earlier item
C4_Witness ==
  /\ p_pc = "idle" /\ p_ret = "false"
  /\ c_pc = "idle" /\ c_ret = "false"
  /\ c_item # NoItem

(***************************************************************************)
(* Claims on the engine, the risk check and the kill switch                *)
(***************************************************************************)

\* the entries buffered in a ring value, oldest first
QueueItems(rb, c) ==
  [i \in 1 .. ((rb.head - rb.tail) % c) |-> rb.buffer[(rb.tail + i - 1) % c]]

\* the call just made was on_trade
OnTradeStep == e_calls' = e_calls + 1

\* C5: when the kill switch is active at the time on_trade is called with a
\* trading signal, the risk check fails, no order with the id of that call
\* reaches the gateway and the last record logged is its WARN RISK_REJECT.
C5_KillSwitchRejects ==
  (e_last.called /\ e_last.signal.should_trade /\ e_last.ks_active) =>
    /\ ~e_last.passed
    /\ \A i \in 1 .. Len(gw_orders) : gw_orders[i].order_id # e_last.id
    /\ log_calls # <<>>
    /\ log_calls[Len(log_calls)] =
         [level |-> "WARN", tag |-> "RISK_REJECT", id |-> e_last.id,
          sym |-> e_last.signal.symbol_id]

\* C6: the k-th trade with a trading signal is given order id k, passed or
\* rejected; trades without a signal take no id; the ids logged are 1, 2, 3,
\* ... and the ids sent to the gateway strictly increase.
C6_OrderIds ==
  /\ next_order_id_ = e_signals + 1
  /\ Len(log_calls) = e_signals
  /\ \A k \in 1 .. Len(log_calls) : log_calls[k].id = k
  /\ (e_last.called /\ e_last.signal.should_trade) => e_last.id = e_signals
  /\ (e_last.called /\ ~e_last.signal.should_trade) => e_last.id = 0
  /\ \A i \in 1 .. Len(gw_orders) :
       /\ gw_orders[i].order_id \in 1 .. e_signals
       /\ log_calls[gw_orders[i].order_id].tag = "ORDER_SENT"
       /\ \A j \in 1 .. Len(gw_orders) :
            i < j => gw_orders[i].order_id < gw_orders[j].order_id

\* three trades: a rejected signal took id 1, a trade without signal took no
\* id, and the next signal was sent with id 2
C6_Witness ==
  /\ e_calls = 3
  /\ e_signals = 2
  /\ Len(log_calls) = 2
  /\ log_calls[1].tag = "RISK_REJECT"
  /\ Len(gw_orders) = 1
  /\ gw_orders[1].order_id = 2

\* C7: an on_trade call with should_trade = false sends and logs nothing; with
\* should_trade = true and a passing risk check it calls send_order once with
\* the signal's symbol, price, qty and side and then logf once with an INFO
\* ORDER_SENT record; with a failing risk check it does not call send_order
\* and calls logf once with a WARN RISK_REJECT record.  The record passed to
\* logf joins the log queue unless the queue is full.
C7_OnTrade ==
  [][ OnTradeStep =>
        LET s == e_last'.signal
            id == next_order_id_
            queued == QueueItems(queue_, LogCapacity)
            Logged(entry) ==
              /\ log_calls' = Append(log_calls, entry)
              /\ QueueItems(queue_', LogCapacity) =
                   IF Len(queued) = LogCapacity - 1
                     THEN queued
                     ELSE Append(queued, entry)
        IN  IF ~s.should_trade
              THEN /\ gw_orders' = gw_orders
                   /\ log_calls' = log_calls
                   /\ queue_' = queue_
                   /\ e_last'.events = <<>>
            ELSE IF e_last'.passed
              THEN /\ gw_orders' = Append(gw_orders,
                         [symbol_id |-> s.symbol_id, order_id |-> id,
                          price |-> s.price, qty |-> s.qty, side |-> s.side])
                   /\ Logged([level |-> "INFO", tag |-> "ORDER_SENT",
                              id |-> id, sym |-> s.symbol_id])
                   /\ e_last'.events = <<"check_new_order", "send_order", "logf">>
              ELSE /\ gw_orders' = gw_orders
                   /\ Logged([level |-> "WARN", tag |-> "RISK_REJECT",
                              id |-> id, sym |-> s.symbol_id])
                   /\ e_last'.events = <<"check_new_order", "logf">>
    ]_vars

\* a Sell signal passed the check and reached the gateway after an earlier
\* signal had been rejected
C7_Witness ==
  /\ e_last.called /\ e_last.passed
  /\ e_last.signal.side = "Sell"
  /\ gw_orders # <<>>
  /\ gw_orders[Len(gw_orders)].side = "Sell"
  /\ gw_orders[Len(gw_orders)].order_id = e_last.id
  /\ \E k \in 1 .. Len(log_calls) : log_calls[k].tag = "RISK_REJECT"

\* |x| computed as the code does, in the word's two's-complement arithmetic
WrapAbs(x) == IF x < 0 THEN Wrap(-x) ELSE x

C8_InRange ==
  (rk_last.called /\ InWord(rk_cmd.price - rk_ref)
     /\ rk_cmd.price - rk_ref # WordMin) =>
    (rk_last.ret <=>
       /\ rk_cmd.qty <= config_.max_order_qty
       /\ WrapAbs(rk_cmd.price - rk_ref) <= config_.max_price_deviation)

\* C9: of the orders checked within one clock instant at most
\* max_orders_per_sec pass.
C9_RateLimit == rk_passes <= config_.max_orders_per_sec

\* C10: the flag is false initially, true after a trigger and false after a
\* reset, whatever its value was before, and is_active returns true exactly
\* when the most recent completed write before it was a trigger.
C10_KillSwitch ==
  /\ active_ <=> (ks_last_write = "trigger")
  /\ ks_read.done => (ks_read.value <=> (ks_read.last = "trigger"))

\* is_active returned false after a trigger followed by a reset, and the
\* switch has been armed again since
C10_Witness ==
  /\ ks_read.done
  /\ ~ks_read.value
  /\ ks_read.last = "reset"
  /\ active_

(***************************************************************************)
(* Claims on the logger (SpecLogger and its fair variants)                 *)
(***************************************************************************)
\* position of the client inside log's queue_.push, in program order
PushRank(pc) ==
  CASE pc = "idle" -> 0
    [] pc = "push_load_head" -> 1
    [] pc = "push_load_tail" -> 2
    [] pc = "push_write" -> 3
    [] pc = "push_store_head" -> 4

\* C11: log / logf never wait.  Every step of a log call moves the call
\* strictly forward in its own code or returns, the step that finds the queue
\* full (cap - 1 unread records) returns with the record dropped and the
\* queued records unchanged, and a call that has started returns when only
\* the client thread is scheduled, whatever the worker does.
C11_LogNeverWaits ==
  /\ [][p_pc' # p_pc =>
          /\ p_pc' = "idle" \/ PushRank(p_pc') = PushRank(p_pc) + 1
          /\ (p_pc = "push_load_tail" /\ Unread = cap - 1) =>
                /\ p_pc' = "idle" /\ p_ret' = "false"
                /\ pushed' = pushed
                /\ Contents' = Contents /\ buffer_' = buffer_
          /\ (p_pc = "push_load_tail" /\ Unread < cap - 1) => p_pc' # "idle"]_vars
  /\ (p_pc # "idle") ~> (p_pc = "idle")

\* a log call found the queue full while the worker was running and returned
C11_Witness ==
  /\ p_pc = "idle" /\ p_ret = "false"
  /\ Unread = cap - 1
  /\ lg_phase = "running"
  /\ lg_calls >= cap

C13_LateRecordDiscarded ==
  \A i \in 1 .. Len(lg_file) : lg_file[i] \notin lg_late

(***************************************************************************)
(* Claims on the order book (SpecBook)                                     *)
(***************************************************************************)
SideMap(side) == IF side = "Buy" THEN bids_ ELSE asks_

C15_QtyPositive ==
  /\ \A p \in DOMAIN bids_ : bids_[p] > 0
  /\ \A p \in DOMAIN asks_ : asks_[p] > 0

\* C16: get_bbo returns true exactly when both sides are non-empty, then
\* with bid the highest bid price and ask the lowest ask price, crossed or
\* not; otherwise it returns false and bid and ask are as before the call;
\* the book is as before the call.
C16_GetBbo ==
  ob_bbo.called =>
    /\ ob_bbo.ret = (DOMAIN bids_ # {} /\ DOMAIN asks_ # {})
    /\ ob_bbo.ret =>
          /\ ob_bbo.bid \in DOMAIN bids_
          /\ \A p \in DOMAIN bids_ : p <= ob_bbo.bid
          /\ ob_bbo.ask \in DOMAIN asks_
          /\ \A p \in DOMAIN asks_ : ob_bbo.ask <= p
    /\ ~ob_bbo.ret => ob_bbo.bid = ob_bbo.bid_in /\ ob_bbo.ask = ob_bbo.ask_in
    /\ ob_bbo.book = <<bids_, asks_, last_update_ts_>>

\* get_bbo has returned true on a crossed book with two levels a side
C16_Witness ==
  /\ ob_bbo.called /\ ob_bbo.ret
  /\ ob_bbo.bid > ob_bbo.ask
  /\ Cardinality(DOMAIN bids_) >= 2 /\ Cardinality(DOMAIN asks_) >= 2

\* levels is the size best levels of map m, best first, with their quantities
TopLevels(levels, m, size, descending) ==
  /\ Len(levels) = size
  /\ \A i \in 1 .. Len(levels) :
       /\ levels[i].price \in DOMAIN m
       /\ levels[i].qty = m[levels[i].price]
       /\ \A j \in 1 .. Len(levels) :
            i < j => IF descending THEN levels[i].price > levels[j].price
                                   ELSE levels[i].price < levels[j].price
       /\ \A p \in DOMAIN m :
            (\A j \in 1 .. Len(levels) : levels[j].price # p) =>
              IF descending THEN p < levels[i].price ELSE p > levels[i].price

\* C17: get_snapshot leaves in bid_levels the min(n, #bids) highest bids in
\* strictly descending price order and in ask_levels the min(n, #asks) lowest
\* asks in strictly ascending price order, each with its current quantity and
\* nothing of what the vectors held before, and returns the number of ask
\* levels; the book is as before the call.
C17_GetSnapshot ==
  ob_snap.called =>
    /\ TopLevels(ob_snap.bid_levels, bids_,
                 Min(ob_snap.n, Cardinality(DOMAIN bids_)), TRUE)
    /\ TopLevels(ob_snap.ask_levels, asks_,
                 Min(ob_snap.n, Cardinality(DOMAIN asks_)), FALSE)
    /\ ob_snap.ret = Len(ob_snap.ask_levels)
    /\ ob_snap.book = <<bids_, asks_, last_update_ts_>>

\* get_snapshot was called with non-empty vectors and an n smaller than the
\* number of bids and larger than the number of asks
C17_Witness ==
  /\ ob_snap.called
  /\ ob_snap.bids_in # <<>> /\ ob_snap.asks_in # <<>>
  /\ ob_snap.n >= 1
  /\ ob_snap.n < Cardinality(DOMAIN bids_)
  /\ Cardinality(DOMAIN asks_) = 1 /\ ob_snap.ret = 1

(***************************************************************************)
(* Claims on the latency histogram and tracker (SpecTracker, SpecHistogram)*)
(***************************************************************************)
\* the first bucket, counted from 1, whose exclusive upper bound in
\* {100, 500, 1000, 10000, 100000, 1000000, +infinity} is greater than x
FirstBucketAbove(x) ==
  LET finite == {i \in 1 .. NUM_BUCKETS - 1 : x < BUCKET_THRESHOLDS[i]} IN
  IF finite = {} THEN NUM_BUCKETS
  ELSE CHOOSE i \in finite : \A j \in finite : i <= j

\* C18: record(x) increments the first bucket whose exclusive upper bound is
\* greater than x, the last bucket being unbounded, and no other bucket.
C18_RecordBucket ==
  tr_last.called =>
    histogram_.buckets_ =
      [tr_last.before EXCEPT ![FirstBucketAbove(tr_last.x)] = @ + 1]

\* the same for every sample below INT64_MAX
C18_BelowMax ==
  (tr_last.called /\ tr_last.x < INT64_MAX) =>
    histogram_.buckets_ =
      [tr_last.before EXCEPT ![FirstBucketAbove(tr_last.x)] = @ + 1]

RECURSIVE SeqSum(_)
SeqSum(s) == IF s = <<>> THEN 0 ELSE Head(s) + SeqSum(Tail(s))

SeqMin(s) == CHOOSE v \in {s[i] : i \in DOMAIN s} : \A i \in DOMAIN s : v <= s[i]
SeqMax(s) == CHOOSE v \in {s[i] : i \in DOMAIN s} : \A i \in DOMAIN s : s[i] <= v

AllRecordsComplete == \A t \in Threads : h_pc[t] = "idle"

\* C19: once all concurrent record calls have completed, count() is the
\* number of calls, sum() the sum of the samples, min_latency() the smallest
\* and max_latency() the largest recorded sample.
C19_ConcurrentStats ==
  (AllRecordsComplete /\ h_samples # <<>>) =>
    /\ count = Len(h_samples)
    /\ sum = SeqSum(h_samples)
    /\ min_latency = SeqMin(h_samples)
    /\ max_latency = SeqMax(h_samples)

\* the same for samples from 0 to below INT64_MAX whose sum is representable
C19_NonNegative ==
  ( /\ AllRecordsComplete /\ h_samples # <<>>
    /\ \A i \in DOMAIN h_samples : 0 <= h_samples[i] /\ h_samples[i] < INT64_MAX
    /\ SeqSum(h_samples) <= INT64_MAX ) =>
    /\ count = Len(h_samples)
    /\ sum = SeqSum(h_samples)
    /\ min_latency = SeqMin(h_samples)
    /\ max_latency = SeqMax(h_samples)

\* a and b hold the same samples the same number of times
SameSamples(a, b) ==
  \A v \in Samples :
    Cardinality({i \in DOMAIN a : a[i] = v})
      = Cardinality({i \in DOMAIN b : b[i] = v})

\* C20: after k record calls from one thread the j-th sample (from 0) of the
\* most recent min(k, MaxSamples) is stored at index j mod MaxSamples, the
\* write index is k, and percentile() copies exactly those min(k, MaxSamples)
\* samples.
C20_SampleStore ==
  LET k == Len(tr_hist)
      n == Min(k, MaxSamples)
  IN  /\ write_idx_ = k
      /\ \A j \in 0 .. k - 1 :
           j >= k - MaxSamples => samples_[j % MaxSamples] = tr_hist[j + 1]
      /\ tr_pct.called =>
           /\ tr_pct.n = n
           /\ Len(tr_pct.copied) = n
           /\ SameSamples(tr_pct.copied, SubSeq(tr_hist, k - n + 1, k))

\* more than MaxSamples distinct samples were recorded, the oldest has been
\* overwritten, and percentile() has been called
C20_Witness ==
  /\ Len(tr_hist) > MaxSamples
  /\ \A i, j \in DOMAIN tr_hist : i # j => tr_hist[i] # tr_hist[j]
  /\ samples_[0] = tr_hist[MaxSamples + 1]
  /\ tr_pct.called /\ tr_pct.n = MaxSamples

\* s is in ascending order
Ascending(s) == \A i, j \in DOMAIN s : i < j => s[i] <= s[j]

\* C21: percentile(p) returns 0 when no sample is recorded; otherwise, with
\* n = min(count, MaxSamples) and the n stored samples in ascending order, it
\* returns the linear interpolation between the samples at positions floor(i)
\* and min(floor(i) + 1, n - 1) for i = p / 100 * (n - 1); percentile(0) is the
\* smallest and percentile(100) the largest stored sample.  tr_pct.num is 100
\* times the value returned.
C21_Percentile ==
  tr_pct.called =>
    LET n == Min(Len(tr_hist), MaxSamples)
        stored == [j \in 1 .. n |-> samples_[j - 1]]
        asc == tr_pct.sorted
        i100 == tr_pct.p * (n - 1)
        lo == i100 \div 100
        hi == Min(lo + 1, n - 1)
    IN  IF Len(tr_hist) = 0 THEN tr_pct.num = 0
        ELSE /\ Len(asc) = n /\ Ascending(asc) /\ SameSamples(asc, stored)
             /\ tr_pct.num = asc[lo + 1] * (100 - (i100 - 100 * lo))
                               + asc[hi + 1] * (i100 - 100 * lo)
             /\ tr_pct.p = 0 => tr_pct.num = 100 * SeqMin(stored)
             /\ tr_pct.p = 100 => tr_pct.num = 100 * SeqMax(stored)

\* percentile(25) of MaxSamples samples stored in descending order returns a
\* value strictly between the two smallest
C21_Witness ==
  /\ tr_pct.called /\ tr_pct.p = 25 /\ tr_pct.n = MaxSamples
  /\ \A j \in 1 .. MaxSamples - 1 : samples_[j - 1] > samples_[j]
  /\ tr_pct.num > 100 * tr_pct.sorted[1]
  /\ tr_pct.num < 100 * tr_pct.sorted[2]

(***************************************************************************)
(* StatArbStrategy and EWMA                                                *)
(***************************************************************************)
Zero == Rat(0, 1)

\* the last on_trade call was for the target symbol
TargetTrade == st_last.called /\ st_last.trade.symbol_id = target_id_

\* the trade price minus the EWMA value after the update with that price
Deviation == RatSub(Rat(st_last.trade.price, PRICE_SCALE), price_ewma_.value_)

\* ticks is a Price within half a tick of the double x
NearestTick(ticks, x) ==
  LET d == RatSub(Rat(ticks, 1), RatMul(x, Rat(PRICE_SCALE, 1))) IN
  ~RatLess(Rat(1, 2), d) /\ ~RatLess(d, Rat(-1, 2))

\* Sell iff dev > threshold, Buy iff dev < -threshold, no trade otherwise; a
\* trading signal carries the trade's price, qty 0.01 and the EWMA value
SignalAsStated ==
  LET sig == st_last.signal
      above == RatLess(threshold_, Deviation)
      below == RatLess(Deviation, RatNeg(threshold_))
  IN  /\ (sig.should_trade /\ sig.side = "Sell") <=> above
      /\ (sig.should_trade /\ sig.side = "Buy") <=> below
      /\ (~above /\ ~below) => ~sig.should_trade
      /\ sig.should_trade =>
           /\ sig.side \in {"Buy", "Sell"}
           /\ sig.symbol_id = target_id_
           /\ sig.price = st_last.trade.price
           /\ sig.qty * 100 = QTY_SCALE
           /\ NearestTick(sig.ref_price, price_ewma_.value_)

\* C22 as stated, for every threshold: for a trade on the target symbol, with
\* dev = trade price minus the EWMA value after its update, on_trade returns
\* Sell iff dev > threshold, Buy iff dev < -threshold, should_trade = false
\* otherwise; a trading signal carries the trade's price, qty 0.01 and
\* ref_price equal to the EWMA value.
C22_AnyThreshold == TargetTrade => SignalAsStated

\* C22, amended: the same for every threshold that is not negative (ref_price
\* being the EWMA value to the nearest tick).
C22_Signal == (TargetTrade /\ ~RatLess(threshold_, Zero)) => SignalAsStated

\* a Sell signal under a positive threshold whose EWMA value is not a whole
\* number of ticks
C22_Witness ==
  /\ TargetTrade /\ RatLess(Zero, threshold_)
  /\ st_last.signal.should_trade /\ st_last.signal.side = "Sell"
  /\ RatMul(price_ewma_.value_, Rat(PRICE_SCALE, 1)).den # 1

\* C23: every Signal on_trade returns, after any sequence of trades, satisfies
\* should_trade => side is Buy or Sell and qty > 0, and the OrderCommand the
\* engine builds from it has that side and qty.
C23_SignalInvariant ==
  st_last.called =>
    LET sig == st_last.signal
        cmd == OrderCommand(sig, Len(st_hist))
    IN  sig.should_trade =>
          /\ sig.side \in {"Buy", "Sell"}
          /\ sig.qty > 0
          /\ cmd.side = sig.side
          /\ cmd.qty = sig.qty

\* the last of MaxStratTrades trades returned a Buy signal
C23_Witness ==
  /\ Len(st_hist) = MaxStratTrades
  /\ st_last.signal.should_trade /\ st_last.signal.side = "Buy"

\* C24: a trade on another symbol returns should_trade = false and leaves the
\* EWMA unchanged; a stream of such trades alone never produces a signal, and
\* the signal for a target-symbol trade is the one a strategy that saw the
\* target-symbol trades alone returns.
C24_OtherSymbol ==
  /\ (st_last.called /\ st_last.trade.symbol_id # target_id_) =>
       /\ ~st_last.signal.should_trade
       /\ price_ewma_ = st_last.before
  /\ (\A i \in DOMAIN st_hist : st_hist[i].symbol_id # target_id_) =>
       /\ ~st_last.signal.should_trade
       /\ price_ewma_ = EWMA(Rat(1, 10))
  /\ price_ewma_ = st_shadow
  /\ TargetTrade => st_last.signal = st_last.alone

\* a target-symbol trade, another symbol's trade at a different price, then a
\* target-symbol trade that fires
C24_Witness ==
  /\ Len(st_hist) = 3
  /\ st_hist[1].symbol_id = target_id_
  /\ st_hist[2].symbol_id # target_id_
  /\ st_hist[2].price # st_hist[1].price /\ st_hist[2].price # st_hist[3].price
  /\ TargetTrade /\ st_last.signal.should_trade

\* the last on_trade call was the first one for the target symbol
FirstTargetTrade ==
  /\ TargetTrade
  /\ \A i \in 1 .. Len(st_hist) - 1 : st_hist[i].symbol_id # target_id_

\* the EWMA holds the trade's price, the deviation is 0, no signal
NoSignalOnFirst ==
  /\ price_ewma_.value_ = Rat(st_last.trade.price, PRICE_SCALE)
  /\ Deviation = Zero
  /\ ~st_last.signal.should_trade

\* C25 as stated: the first trade on the target symbol never produces a
\* trading signal, for any configured threshold; the EWMA is initialised to
\* that trade's price, so the deviation is 0.
C25_AnyThreshold == FirstTargetTrade => NoSignalOnFirst

\* C25, amended: the same for every threshold that is not negative.
C25_FirstTrade ==
  (FirstTargetTrade /\ ~RatLess(threshold_, Zero)) => NoSignalOnFirst

\* the first target-symbol trade comes after another symbol's trade, under the
\* threshold 0
C25_Witness ==
  /\ FirstTargetTrade /\ Len(st_hist) >= 2
  /\ threshold_ = Zero

RECURSIVE EwmaOf(_, _)
\* x1 for one sample, then alpha * x + (1 - alpha) * value
EwmaOf(alpha, xs) ==
  IF Len(xs) = 1 THEN xs[1]
  ELSE RatAdd(RatMul(alpha, xs[Len(xs)]),
              RatMul(RatSub(Rat(1, 1), alpha),
                     EwmaOf(alpha, SubSeq(xs, 1, Len(xs) - 1))))

\* C26: update sets the value to x on the first call and to
\* alpha * x + (1 - alpha) * value on every later call; with alpha = 1 value()
\* is the last sample, with alpha = 0 the first sample.
C26_EwmaUpdate ==
  ew_hist # <<>> =>
    /\ ewma_.initialized_
    /\ EWMA_value(ewma_) = EwmaOf(ewma_.alpha_, ew_hist)
    /\ ewma_.alpha_ = Rat(1, 1) => EWMA_value(ewma_) = ew_hist[Len(ew_hist)]
    /\ ewma_.alpha_ = Zero => EWMA_value(ewma_) = ew_hist[1]

\* MaxUpdates updates with alpha = 1/2 whose value is none of the samples, the
\* last one differing from the first
C26_Witness ==
  /\ Len(ew_hist) = MaxUpdates
  /\ ewma_.alpha_ = Rat(1, 2)
  /\ ew_hist[1] # ew_hist[Len(ew_hist)]
  /\ \A i \in DOMAIN ew_hist : EWMA_value(ewma_) # ew_hist[i]

\* C27: an EWMA with alpha outside (0, 1] is rejected at construction, so no
\* such object ever processes a sample.
C27_InvalidAlphaRejected ==
  ewma_.constructed =>
    RatLess(Zero, ewma_.alpha_) /\ ~RatLess(Rat(1, 1), ewma_.alpha_)

(***************************************************************************)
(* Price                                                                   *)
(***************************************************************************)
\* the comparisons agree with the order of the ticks, which is total
ComparisonsAgree ==
  pr_last.op = "cmp" =>
    /\ pr_last.eq <=> pr_a = pr_b
    /\ pr_last.ne <=> ~pr_last.eq
    /\ pr_last.lt <=> pr_a < pr_b
    /\ pr_last.gt <=> pr_b < pr_a
    /\ pr_last.le <=> (pr_last.lt \/ pr_last.eq)
    /\ pr_last.ge <=> (pr_last.gt \/ pr_last.eq)
    /\ Cardinality({c \in {"lt", "eq", "gt"} : pr_last[c]}) = 1

C28_InRange ==
  /\ (pr_last.op = "add" /\ InWord(pr_a + pr_b)) =>
       pr_last.r = pr_a + pr_b /\ pr_last.back = pr_a
  /\ (pr_last.op = "sub" /\ InWord(pr_a - pr_b)) =>
       pr_last.r = pr_a - pr_b /\ pr_last.back = pr_a
  /\ ComparisonsAgree

(***************************************************************************)
(* front() / advance() against pop()                                       *)
(***************************************************************************)
\* the step in which front() returns
FrontReturns == c_pc = "front_load_head" /\ c_pc' # c_pc

\* the step in which advance() stores tail_
AdvanceStores == c_pc = "adv_store_tail" /\ c_pc' # c_pc

\* C29: front() returns the oldest unread element without changing the queue,
\* null exactly when the queue is empty; advance() after a non-null front()
\* leaves the queue as a successful pop() returning that element does; any mix
\* of pop() and front() / advance() hands over the pushed items in FIFO order.
C29_FrontAdvance ==
  [][ /\ FrontReturns =>
           /\ <<head_', tail_', buffer_'>> = <<head_, tail_, buffer_>>
           /\ popped' = popped
           /\ (c_ptr' = Null) <=> (head_ = tail_)
           /\ c_ptr' # Null =>
                c_ptr' = tail_ /\ buffer_[c_ptr'] = pushed[Len(popped) + 1]
      /\ AdvanceStores =>
           LET pop == RB_pop([head |-> head_, tail |-> tail_,
                              buffer |-> buffer_], cap)
           IN  /\ pop.ok
               /\ pop.item = c_item
               /\ <<head_', tail_', buffer_'>>
                    = <<pop.rb.head, pop.rb.tail, pop.rb.buffer>>
               /\ popped' = Append(popped, pop.item)
      /\ popped' = SubSeq(pushed', 1, Len(popped'))
    ]_vars

\* after a pop() that returned true, the consumer has read the next element
\* through front() and advance() is about to store tail_
C29_Witness ==
  /\ c_pc = "adv_store_tail"
  /\ c_ret = "true" /\ Len(popped) >= 1
  /\ c_item = pushed[Len(popped) + 1]
  /\ c_item # popped[Len(popped)]

(***************************************************************************)
(* OrderBook: deleting twice                                               *)
(***************************************************************************)
\* C30: applying a delete (qty = 0) twice leaves bids and asks exactly as
\* after applying it once, whether or not the price was present before.
C30_DeleteIdempotent ==
  ob_twice.called =>
    /\ <<bids_, asks_>> = ob_twice.once
    /\ ob_twice.update.price \notin
         DOMAIN (IF ob_twice.update.side = "Buy" THEN bids_ ELSE asks_)

\* the deleted price was present, beside another level of the same side that
\* stays
C30_Witness ==
  /\ ob_twice.called /\ ob_twice.update.side = "Sell"
  /\ ob_twice.update.price \in DOMAIN ob_twice.before[2]
  /\ DOMAIN asks_ # {}

(***************************************************************************)
(* LatencyHistogram: buckets against count()                               *)
(***************************************************************************)
\* the sum of the seven bucket counts
BucketTotal == SeqSum(histogram_.buckets_)

\* C31: after any sequence of completed record calls with arbitrary signed
\* samples, INT64_MAX included, and after reset(), the sum of the seven bucket
\* counts equals count().
C31_BucketSum == BucketTotal = count

\* the same while every sample recorded since the last reset is below
\* INT64_MAX
C31_BelowMax ==
  (\A i \in DOMAIN tr_hist : tr_hist[i] < INT64_MAX) => BucketTotal = count

(***************************************************************************)
(* SPSCRingBuffer: advance() at any time                                   *)
(***************************************************************************)
\* C32: after any sequence of push, pop, front and advance calls the number
\* of items consumed never exceeds the number of items successfully pushed,
\* and advance() called on an empty queue leaves it empty.
C32_NoOvertake ==
  [][ /\ Len(popped') <= Len(pushed')
      /\ (AdvanceStores /\ head_ = tail_) => head_' = tail_'
    ]_vars

\* the same for a consumer that calls advance() only after a non-null front()
C32_AfterFront ==
  [][ /\ Len(popped') <= Len(pushed')
      /\ AdvanceStores => head_ # tail_
    ]_vars

(***************************************************************************)
(* main: producers of the logger's queue                                   *)
(***************************************************************************)
\* a LOG_INFO call of the main thread is in progress
MainInLog == mn_pc \in {"in69", "in89", "in96"}

\* a logf call of the feeder thread is in progress
FeederInLog == fd_pc = "in_logf"

\* feeder.key_start() has been called and feeder.stop() has not returned
FeederActive == mn_pc \in {"at94", "at96", "in96", "at97", "join"}

\* C33: from feeder.key_start() until feeder.stop() has returned, the main
\* thread's LOG_INFO calls and the feeder thread's logf calls are never in
\* progress at the same time.
C33_SingleProducer == FeederActive => ~(MainInLog /\ FeederInLog)

\* the same apart from LOG_INFO("Stopping...") at line 96, and at all times
\* outside that call
C33_ExceptStopping == mn_pc # "in96" => ~(MainInLog /\ FeederInLog)

====
